---- MODULE Spec2Model ----
\* JWT authentication of go-api-setup: the token codec (pkg/utils: GenerateJWT,
\* ValidateJWT) and the HTTP middleware built on it (internal/middleware:
\* AuthMiddleware, writeErrorResponse).
\*
\* Strings the code inspects character by character (the Authorization header,
\* the token) are sequences of elements; an element is a character [ch |-> c]
\* or a base64url segment of a token, kept as the record of what it encodes
\* (base64url is a bijection on byte strings and carries no '.' and no ' ').
\* The HMAC of a signing string is the record of (algorithm, key, signing
\* string): distinct inputs give distinct signatures.
\* Time is counted in clock ticks, TicksPerSecond of them to a second; a
\* NumericDate keeps whole seconds only.
EXTENDS Integers, Sequences, FiniteSets, TLC

\* ---------------------------------------------------------------- bounds
TicksPerSecond == 2
\* the clock is observed at offsets 0..MaxOffset ticks into each day
MaxOffset == 2
\* days 0..MaxDay
MaxDay == 1
\* ticks the clock may move between two time.Now() calls of one GenerateJWT
MaxSkew == 1
\* rows the users table can hold, deleted ones included
MaxUsers == 2
MaxRequests == 2
MaxIssuers == 2
MaxStopAll == 2
MaxCallers == 2

\* ------------------------------------------------------- program constants
\* 24 * time.Hour, in seconds
TokenLifetime == 86400
StatusUnauthorized == 401

\* ------------------------------------------------------------ input domains
UserIDs == {0, 12}
Emails == {<<>>, <<"a", "\"", "<">>}
Secrets == {"", "k1"}

DayTicks == TokenLifetime * TicksPerSecond
ClockPoints == {d * DayTicks + o : d \in 0..MaxDay, o \in 0..MaxOffset}

\* ------------------------------------------------------------ string helpers
Ch(c) == [ch |-> c]
Str(s) == [i \in DOMAIN s |-> Ch(s[i])]
Dot == Ch(".")

\* strings.HasPrefix
HasPrefix(s, prefix) ==
    /\ Len(s) >= Len(prefix)
    /\ SubSeq(s, 1, Len(prefix)) = prefix

\* strings.TrimPrefix
TrimPrefix(s, prefix) ==
    IF HasPrefix(s, prefix) THEN SubSeq(s, Len(prefix) + 1, Len(s)) ELSE s

\* strings.Split(s, "."): the parts between the separators, in order
RECURSIVE SplitFrom(_, _, _)
SplitFrom(s, i, cur) ==
    IF i > Len(s) THEN <<cur>>
    ELSE IF s[i] = Dot THEN <<cur>> \o SplitFrom(s, i + 1, <<>>)
    ELSE SplitFrom(s, i + 1, Append(cur, s[i]))
Split(s) == SplitFrom(s, 1, <<>>)

\* ------------------------------------------------------------ JSON encoding
Digit(n) == CASE n = 0 -> "0" [] n = 1 -> "1" [] n = 2 -> "2" [] n = 3 -> "3"
              [] n = 4 -> "4" [] n = 5 -> "5" [] n = 6 -> "6" [] n = 7 -> "7"
              [] n = 8 -> "8" [] n = 9 -> "9"
DigitValue(c) == CHOOSE n \in 0..9 : Digit(n) = c
IsDigit(c) == \E n \in 0..9 : Digit(n) = c

\* encoding/json writes a uint as its decimal digits
RECURSIVE FormatUint(_)
FormatUint(n) ==
    IF n < 10 THEN <<Digit(n)>> ELSE Append(FormatUint(n \div 10), Digit(n % 10))

\* encoding/json reads a uint field from a digit string (no sign, no leading zero)
RECURSIVE ParseDigits(_, _)
ParseDigits(s, acc) ==
    IF s = <<>> THEN acc ELSE ParseDigits(Tail(s), acc * 10 + DigitValue(Head(s)))
IsUintLiteral(s) ==
    /\ Len(s) >= 1
    /\ \A i \in DOMAIN s : IsDigit(s[i])
    /\ Len(s) > 1 => s[1] # "0"
ParseUint(s) == ParseDigits(s, 0)

\* encoding/json escapes '"' and '\' with a backslash and, with HTML escaping
\* on (the default of json.Marshal), '<', '>' and '&' as \u00XX
EscapeChar(c) ==
    CASE c = "\"" -> <<"\\", "\"">>
      [] c = "\\" -> <<"\\", "\\">>
      [] c = "<"  -> <<"\\", "u", "0", "0", "3", "c">>
      [] c = ">"  -> <<"\\", "u", "0", "0", "3", "e">>
      [] c = "&"  -> <<"\\", "u", "0", "0", "2", "6">>
      [] OTHER    -> <<c>>
RECURSIVE EscapeJSON(_)
EscapeJSON(s) ==
    IF s = <<>> THEN <<>> ELSE EscapeChar(Head(s)) \o EscapeJSON(Tail(s))

UnicodeEscape(hex) ==
    CASE hex = <<"0", "0", "3", "c">> -> "<"
      [] hex = <<"0", "0", "3", "e">> -> ">"
      [] hex = <<"0", "0", "2", "6">> -> "&"
      [] OTHER -> "?"
\* UnescapeJSON with the \uXXXX escapes left undecoded
RECURSIVE UnescapeJSONNoUnicode(_)
UnescapeJSONNoUnicode(s) ==
    IF s = <<>> THEN <<>>
    ELSE IF Head(s) # "\\" THEN <<Head(s)>> \o UnescapeJSONNoUnicode(Tail(s))
    ELSE IF Len(s) >= 2 THEN <<s[2]>> \o UnescapeJSONNoUnicode(SubSeq(s, 3, Len(s)))
    ELSE <<>>

RECURSIVE UnescapeJSON(_)
UnescapeJSON(s) ==
    IF s = <<>> THEN <<>>
    ELSE IF Head(s) # "\\" THEN <<Head(s)>> \o UnescapeJSON(Tail(s))
    ELSE IF Len(s) >= 6 /\ s[2] = "u"
         THEN <<UnicodeEscape(SubSeq(s, 3, 6))>> \o UnescapeJSON(SubSeq(s, 7, Len(s)))
    ELSE IF Len(s) >= 2 THEN <<s[2]>> \o UnescapeJSON(SubSeq(s, 3, Len(s)))
    ELSE <<>>

\* ------------------------------------------------------------ token codec
\* jwt.NewNumericDate: a time truncated to whole seconds (jwt.TimePrecision)
NewNumericDate(t) == t \div TicksPerSecond
\* the instant a NumericDate denotes, in ticks
TimeOf(date) == date * TicksPerSecond

\* the signing methods golang-jwt registers (jwt.GetSigningMethod)
HMACMethods == {"HS256", "HS384", "HS512"}
RegisteredMethods == HMACMethods \cup {"RS256", "none"}

NilClaims == [nil |-> TRUE]

\* base64url(json(header))
HeaderSegment(alg) == [seg |-> "header", alg |-> alg, typ |-> "JWT"]

\* base64url(json(claims)) of a JWTClaims value
ClaimsSegment(claims) ==
    [seg |-> "claims",
     user_id |-> FormatUint(claims.UserID),
     email |-> EscapeJSON(claims.Email),
     exp |-> claims.ExpiresAt,
     iat |-> claims.IssuedAt,
     nbf |-> claims.NotBefore]

\* a MAC that does not depend on the signing string
HMACSignKeyOnly(alg, signingString, key) ==
    [seg |-> "sig", alg |-> alg, key |-> key, msg |-> <<>>]

\* base64url(HMAC-SHA(alg)(key, signingString))
HMACSign(alg, signingString, key) ==
    [seg |-> "sig", alg |-> alg, key |-> key, msg |-> signingString]

\* token.SignedString with jwt.SigningMethodHS256
SignedString(claims, key) ==
    LET signingString == <<HeaderSegment("HS256"), Dot, ClaimsSegment(claims)>>
    IN  signingString \o <<Dot, HMACSign("HS256", signingString, key)>>

\* the JWTClaims literal of GenerateJWT; its three time.Now() calls are
\* evaluated in source order and return t1 <= t2 <= t3
NewClaims(userID, email, t1, t2, t3) ==
    [UserID |-> userID,
     Email |-> email,
     ExpiresAt |-> NewNumericDate(t1 + TokenLifetime * TicksPerSecond),
     IssuedAt |-> NewNumericDate(t2),
     NotBefore |-> NewNumericDate(t3)]

GenerateJWT(userID, email, secretKey, t1, t2, t3) ==
    SignedString(NewClaims(userID, email, t1, t2, t3), secretKey)

IsSegment(part, kind) ==
    /\ Len(part) = 1
    /\ "seg" \in DOMAIN part[1]
    /\ part[1].seg = kind

\* json.Unmarshal of the claims segment into a JWTClaims
DecodeClaims(p) ==
    [UserID |-> ParseUint(p.user_id),
     Email |-> UnescapeJSON(p.email),
     ExpiresAt |-> p.exp,
     IssuedAt |-> p.iat,
     NotBefore |-> p.nbf]

\* the keyfunc ValidateJWT hands to the parser: only *jwt.SigningMethodHMAC passes
KeyFunc(alg) == alg \in HMACMethods

\* Verify accepting the MAC of the signing string under any key
VerifyAnyKey(alg, signingString, sigPart, key) ==
    \E k \in Secrets : sigPart = <<HMACSign(alg, signingString, k)>>

\* SigningMethodHMAC.Verify: recompute the MAC under the method's hash
Verify(alg, signingString, sigPart, key) ==
    sigPart = <<HMACSign(alg, signingString, key)>>

\* verifyExpiresAt with the expiry instant itself still accepted
verifyExpiresAtInclusive(claims, t) == t <= TimeOf(claims.ExpiresAt)

\* jwt.Validator: exp and nbf are checked with no leeway, iat is not checked
verifyExpiresAt(claims, t) == t < TimeOf(claims.ExpiresAt)
verifyNotBefore(claims, t) == t >= TimeOf(claims.NotBefore)

Failed(err) == [claims |-> NilClaims, err |-> err]

\* ValidateJWT verifying every token as HS256, whatever its header declares
ValidateJWTFixedMethod(tokenString, secretKey, t) ==
    LET parts == Split(tokenString)
    IN  IF Len(parts) # 3 THEN Failed("token is malformed")
        ELSE IF ~IsSegment(parts[1], "header") THEN Failed("token is malformed")
        ELSE IF ~IsSegment(parts[2], "claims") THEN Failed("token is malformed")
        ELSE IF ~IsUintLiteral(parts[2][1].user_id) THEN Failed("token is malformed")
        ELSE
        LET claims == DecodeClaims(parts[2][1])
            signingString == parts[1] \o <<Dot>> \o parts[2]
        IN  IF ~Verify("HS256", signingString, parts[3], secretKey)
                 THEN Failed("token signature is invalid")
            ELSE IF ~verifyExpiresAt(claims, t) THEN Failed("token is expired")
            ELSE IF ~verifyNotBefore(claims, t) THEN Failed("token is not valid yet")
            ELSE [claims |-> claims, err |-> ""]

\* ValidateJWT returning claims re-stamped with the time of the validation
ValidateJWTRestamped(tokenString, secretKey, t) ==
    LET parts == Split(tokenString)
    IN  IF Len(parts) # 3 THEN Failed("token is malformed")
        ELSE IF ~IsSegment(parts[1], "header") THEN Failed("token is malformed")
        ELSE IF ~IsSegment(parts[2], "claims") THEN Failed("token is malformed")
        ELSE IF ~IsUintLiteral(parts[2][1].user_id) THEN Failed("token is malformed")
        ELSE
        LET alg == parts[1][1].alg
            claims == DecodeClaims(parts[2][1])
            signingString == parts[1] \o <<Dot>> \o parts[2]
        IN  IF alg \notin RegisteredMethods THEN Failed("token is unverifiable")
            ELSE IF ~KeyFunc(alg) THEN Failed("token is unverifiable")
            ELSE IF ~Verify(alg, signingString, parts[3], secretKey)
                 THEN Failed("token signature is invalid")
            ELSE IF ~verifyExpiresAt(claims, t) THEN Failed("token is expired")
            ELSE IF ~verifyNotBefore(claims, t) THEN Failed("token is not valid yet")
            ELSE [claims |-> [claims EXCEPT !.IssuedAt = NewNumericDate(t)],
                  err |-> ""]

\* ValidateJWT(tokenString, secretKey) evaluated when time.Now() returns t
ValidateJWT(tokenString, secretKey, t) ==
    LET parts == Split(tokenString)
    IN  IF Len(parts) # 3 THEN Failed("token is malformed")
        ELSE IF ~IsSegment(parts[1], "header") THEN Failed("token is malformed")
        ELSE IF ~IsSegment(parts[2], "claims") THEN Failed("token is malformed")
        ELSE IF ~IsUintLiteral(parts[2][1].user_id) THEN Failed("token is malformed")
        ELSE
        LET alg == parts[1][1].alg
            claims == DecodeClaims(parts[2][1])
            signingString == parts[1] \o <<Dot>> \o parts[2]
        IN  IF alg \notin RegisteredMethods THEN Failed("token is unverifiable")
            ELSE IF ~KeyFunc(alg) THEN Failed("token is unverifiable")
            ELSE IF ~Verify(alg, signingString, parts[3], secretKey)
                 THEN Failed("token signature is invalid")
            ELSE IF ~verifyExpiresAt(claims, t) THEN Failed("token is expired")
            ELSE IF ~verifyNotBefore(claims, t) THEN Failed("token is not valid yet")
            ELSE [claims |-> claims, err |-> ""]

\* ------------------------------------------------------------ HTTP values
EmptyMap == [k \in {} |-> k]

\* http.Header.Get: the value of the header, "" when it is absent
HeaderGet(header, name) == IF name \in DOMAIN header THEN header[name] ELSE <<>>

\* values held in a context as interface{}: the dynamic type and the value
Uint(n) == [type |-> "uint", val |-> n]
String(s) == [type |-> "string", val |-> s]

\* context.WithValue: the new value shadows an older one under the same key
WithValue(ctx, key, val) == (key :> val) @@ ctx

\* r.WithContext(ctx): a shallow copy of r with the context replaced
WithContext(r, ctx) == [r EXCEPT !.ctx = ctx]

\* a fresh http.ResponseWriter: no header set, no status written, empty body
NewResponseWriter == [header |-> EmptyMap, status |-> 0, body |-> <<>>]

\* writeErrorResponse without its WriteHeader call
writeErrorResponseNoStatus(w, message, statusCode) ==
    [header |-> ("Content-Type" :> "application/json") @@ w.header,
     status |-> w.status,
     body |-> Append(w.body, [error |-> message])]

\* writeErrorResponse(w, message, statusCode); the body is the sequence of JSON
\* documents written, the first WriteHeader call fixes the status
writeErrorResponse(w, message, statusCode) ==
    [header |-> ("Content-Type" :> "application/json") @@ w.header,
     status |-> IF w.status = 0 THEN statusCode ELSE w.status,
     body |-> Append(w.body, [error |-> message])]

BearerPrefix == Str(<<"B", "e", "a", "r", "e", "r", " ">>)

\* what one run of the handler AuthMiddleware(jwtSecret)(next) does with request
\* r when time.Now() returns t: the response it writes itself (w), the requests
\* it hands to next, and its ValidateJWT calls
Handled(w, next, validated) == [w |-> w, next |-> next, validated |-> validated]

\* AuthMiddleware with no return after "Token required": it goes on to validate
AuthMiddlewareNoReturn(jwtSecret, r, t) ==
    LET w == NewResponseWriter
        authHeader == HeaderGet(r.Header, "Authorization")
        token == TrimPrefix(authHeader, BearerPrefix)
        call == [tokenString |-> token, secretKey |-> jwtSecret]
        res == ValidateJWT(token, jwtSecret, t)
        ctx == WithValue(WithValue(r.ctx, "user_id", Uint(res.claims.UserID)),
                         "user_email", String(res.claims.Email))
    IN  IF authHeader = <<>>
        THEN Handled(writeErrorResponse(w, "Authorization header required",
                                        StatusUnauthorized), <<>>, <<>>)
        ELSE IF ~HasPrefix(authHeader, BearerPrefix)
        THEN Handled(writeErrorResponse(w, "Invalid authorization header format",
                                        StatusUnauthorized), <<>>, <<>>)
        ELSE IF token = <<>>
        THEN Handled(writeErrorResponse(
                         writeErrorResponse(w, "Token required", StatusUnauthorized),
                         "Invalid token", StatusUnauthorized),
                     <<>>, <<call>>)
        ELSE IF res.err # ""
        THEN Handled(writeErrorResponse(w, "Invalid token", StatusUnauthorized),
                     <<>>, <<call>>)
        ELSE Handled(w, <<WithContext(r, ctx)>>, <<call>>)

\* AuthMiddleware answering with the error ValidateJWT returned
AuthMiddlewareLeaksError(jwtSecret, r, t) ==
    LET w == NewResponseWriter
        authHeader == HeaderGet(r.Header, "Authorization")
        token == TrimPrefix(authHeader, BearerPrefix)
        call == [tokenString |-> token, secretKey |-> jwtSecret]
        res == ValidateJWT(token, jwtSecret, t)
        ctx == WithValue(WithValue(r.ctx, "user_id", Uint(res.claims.UserID)),
                         "user_email", String(res.claims.Email))
    IN  IF authHeader = <<>>
        THEN Handled(writeErrorResponse(w, "Authorization header required",
                                        StatusUnauthorized), <<>>, <<>>)
        ELSE IF ~HasPrefix(authHeader, BearerPrefix)
        THEN Handled(writeErrorResponse(w, "Invalid authorization header format",
                                        StatusUnauthorized), <<>>, <<>>)
        ELSE IF token = <<>>
        THEN Handled(writeErrorResponse(w, "Token required", StatusUnauthorized),
                     <<>>, <<>>)
        ELSE IF res.err # ""
        THEN Handled(writeErrorResponse(w, res.err, StatusUnauthorized),
                     <<>>, <<call>>)
        ELSE Handled(w, <<WithContext(r, ctx)>>, <<call>>)

\* AuthMiddleware without the check for an empty token
AuthMiddlewareNoEmptyCheck(jwtSecret, r, t) ==
    LET w == NewResponseWriter
        authHeader == HeaderGet(r.Header, "Authorization")
        token == TrimPrefix(authHeader, BearerPrefix)
        call == [tokenString |-> token, secretKey |-> jwtSecret]
        res == ValidateJWT(token, jwtSecret, t)
        ctx == WithValue(WithValue(r.ctx, "user_id", Uint(res.claims.UserID)),
                         "user_email", String(res.claims.Email))
    IN  IF authHeader = <<>>
        THEN Handled(writeErrorResponse(w, "Authorization header required",
                                        StatusUnauthorized), <<>>, <<>>)
        ELSE IF ~HasPrefix(authHeader, BearerPrefix)
        THEN Handled(writeErrorResponse(w, "Invalid authorization header format",
                                        StatusUnauthorized), <<>>, <<>>)
        ELSE IF res.err # ""
        THEN Handled(writeErrorResponse(w, "Invalid token", StatusUnauthorized),
                     <<>>, <<call>>)
        ELSE Handled(w, <<WithContext(r, ctx)>>, <<call>>)

\* AuthMiddleware calling next with the request as it came
AuthMiddlewareKeepsContext(jwtSecret, r, t) ==
    LET w == NewResponseWriter
        authHeader == HeaderGet(r.Header, "Authorization")
        token == TrimPrefix(authHeader, BearerPrefix)
        call == [tokenString |-> token, secretKey |-> jwtSecret]
        res == ValidateJWT(token, jwtSecret, t)
        ctx == WithValue(WithValue(r.ctx, "user_id", Uint(res.claims.UserID)),
                         "user_email", String(res.claims.Email))
    IN  IF authHeader = <<>>
        THEN Handled(writeErrorResponse(w, "Authorization header required",
                                        StatusUnauthorized), <<>>, <<>>)
        ELSE IF ~HasPrefix(authHeader, BearerPrefix)
        THEN Handled(writeErrorResponse(w, "Invalid authorization header format",
                                        StatusUnauthorized), <<>>, <<>>)
        ELSE IF token = <<>>
        THEN Handled(writeErrorResponse(w, "Token required", StatusUnauthorized),
                     <<>>, <<>>)
        ELSE IF res.err # ""
        THEN Handled(writeErrorResponse(w, "Invalid token", StatusUnauthorized),
                     <<>>, <<call>>)
        ELSE Handled(w, <<r>>, <<call>>)

\* the handler AuthMiddleware(jwtSecret)(next)
AuthMiddleware(jwtSecret, r, t) ==
    LET w == NewResponseWriter
        authHeader == HeaderGet(r.Header, "Authorization")
        token == TrimPrefix(authHeader, BearerPrefix)
        call == [tokenString |-> token, secretKey |-> jwtSecret]
        res == ValidateJWT(token, jwtSecret, t)
        ctx == WithValue(WithValue(r.ctx, "user_id", Uint(res.claims.UserID)),
                         "user_email", String(res.claims.Email))
    IN  IF authHeader = <<>>
        THEN Handled(writeErrorResponse(w, "Authorization header required",
                                        StatusUnauthorized), <<>>, <<>>)
        ELSE IF ~HasPrefix(authHeader, BearerPrefix)
        THEN Handled(writeErrorResponse(w, "Invalid authorization header format",
                                        StatusUnauthorized), <<>>, <<>>)
        ELSE IF token = <<>>
        THEN Handled(writeErrorResponse(w, "Token required", StatusUnauthorized),
                     <<>>, <<>>)
        ELSE IF res.err # ""
        THEN Handled(writeErrorResponse(w, "Invalid token", StatusUnauthorized),
                     <<>>, <<call>>)
        ELSE Handled(w, <<WithContext(r, ctx)>>, <<call>>)

\* ------------------------------------------------------------ users table
\* The table is the sequence of its rows in primary-key order: the row with
\* ID i is db[i] (AUTO_INCREMENT from 1). Deleted is "deleted_at IS NOT NULL";
\* the created_at / updated_at columns are left out.
NilUser == [nil |-> TRUE]

\* bcrypt: a hash matches the password it was made from and no other
HashPassword(password) == [bcrypt |-> password]
CheckPassword(password, hashedPassword) == hashedPassword = [bcrypt |-> password]

\* the rows gorm sees: soft-deleted rows are filtered out of every query
Visible(db) == {i \in DOMAIN db : ~db[i].Deleted}

\* userRepository.GetByEmail: nil, nil when no row is found
GetByEmail(db, email) ==
    LET hits == {i \in Visible(db) : db[i].Email = email}
    IN  IF hits = {} THEN NilUser
        ELSE db[CHOOSE i \in hits : \A j \in hits : i <= j]

\* userRepository.GetByID
GetByID(db, id) == IF id \in Visible(db) THEN db[id] ELSE NilUser

\* userRepository.Create: INSERT; the unique index on email spans all rows,
\* soft-deleted ones included
Create(db, user) ==
    IF \E i \in DOMAIN db : db[i].Email = user.Email
    THEN [db |-> db, user |-> user, err |-> "Duplicate entry"]
    ELSE LET row == [user EXCEPT !.ID = Len(db) + 1]
         IN  [db |-> Append(db, row), user |-> row, err |-> ""]

\* userRepository.Update: db.Save of a row read before
Update(db, user) ==
    IF \E i \in DOMAIN db : i # user.ID /\ db[i].Email = user.Email
    THEN [db |-> db, err |-> "Duplicate entry"]
    ELSE [db |-> [db EXCEPT ![user.ID] = user], err |-> ""]

\* userRepository.Delete: soft delete, UPDATE users SET deleted_at = now
Delete(db, id) ==
    IF id \in Visible(db) THEN [db EXCEPT ![id].Deleted = TRUE] ELSE db

\* userRepository.GetAll
RECURSIVE VisibleRows(_, _)
VisibleRows(db, i) ==
    IF i > Len(db) THEN <<>>
    ELSE (IF db[i].Deleted THEN <<>> ELSE <<db[i]>>) \o VisibleRows(db, i + 1)
GetAll(db, limit, offset) ==
    LET rows == VisibleRows(db, 1)
        first == offset + 1
        last == IF limit > 0 /\ offset + limit < Len(rows)
                THEN offset + limit ELSE Len(rows)
    IN  SubSeq(rows, first, last)

\* ------------------------------------------------------------ use cases
UserResponse(user) == [ID |-> user.ID, Name |-> user.Name, Email |-> user.Email]
NilResponse == [nil |-> TRUE]
Result(res, err, db) == [res |-> res, err |-> err, db |-> db]

\* userUsecase.Register
Register(db, req) ==
    IF GetByEmail(db, req.Email) # NilUser
    THEN Result(NilResponse, "user with this email already exists", db)
    ELSE LET user == [ID |-> 0, Name |-> req.Name, Email |-> req.Email,
                      Password |-> HashPassword(req.Password), Deleted |-> FALSE]
             created == Create(db, user)
         IN  IF created.err # ""
             THEN Result(NilResponse, "failed to create user: Duplicate entry", db)
             ELSE Result(UserResponse(created.user), "", created.db)

\* userUsecase.CreateUser
CreateUser(db, req) ==
    IF GetByEmail(db, req.Email) # NilUser
    THEN Result(NilResponse, "user with this email already exists", db)
    ELSE LET user == [ID |-> 0, Name |-> req.Name, Email |-> req.Email,
                      Password |-> HashPassword(req.Password), Deleted |-> FALSE]
             created == Create(db, user)
         IN  IF created.err # ""
             THEN Result(NilResponse, "failed to create user: Duplicate entry", db)
             ELSE Result(UserResponse(created.user), "", created.db)

\* Login telling an unknown email from a wrong password
LoginRevealing(db, req, secret, t1, t2, t3) ==
    LET user == GetByEmail(db, req.Email)
    IN  IF user = NilUser
        THEN Result(NilResponse, "user not found", db)
        ELSE IF ~CheckPassword(req.Password, user.Password)
        THEN Result(NilResponse, "invalid email or password", db)
        ELSE Result([Token |-> GenerateJWT(user.ID, user.Email, secret, t1, t2, t3),
                     User |-> UserResponse(user)], "", db)

\* Login of a use case built with another secret than the gate
LoginOtherSecret(db, req, secret, t1, t2, t3) ==
    LET user == GetByEmail(db, req.Email)
    IN  IF user = NilUser
        THEN Result(NilResponse, "invalid email or password", db)
        ELSE IF ~CheckPassword(req.Password, user.Password)
        THEN Result(NilResponse, "invalid email or password", db)
        ELSE Result([Token |-> GenerateJWT(user.ID, user.Email, "", t1, t2, t3),
                     User |-> UserResponse(user)], "", db)

\* userUsecase.Login; GenerateJWT reads the clock at t1, t2 and t3
Login(db, req, secret, t1, t2, t3) ==
    LET user == GetByEmail(db, req.Email)
    IN  IF user = NilUser
        THEN Result(NilResponse, "invalid email or password", db)
        ELSE IF ~CheckPassword(req.Password, user.Password)
        THEN Result(NilResponse, "invalid email or password", db)
        ELSE Result([Token |-> GenerateJWT(user.ID, user.Email, secret, t1, t2, t3),
                     User |-> UserResponse(user)], "", db)

\* userUsecase.GetProfile
GetProfile(db, userID) ==
    LET user == GetByID(db, userID)
    IN  IF user = NilUser THEN Result(NilResponse, "user not found", db)
        ELSE Result(UserResponse(user), "", db)

\* userUsecase.GetUserByID
GetUserByID(db, userID) ==
    LET user == GetByID(db, userID)
    IN  IF user = NilUser THEN Result(NilResponse, "user not found", db)
        ELSE Result(UserResponse(user), "", db)

\* userUsecase.UpdateUser
\* UpdateUser that saves the new name and password before it looks the new
\* email up
UpdateUserSavingFirst(db, userID, req) ==
    LET user == GetByID(db, userID)
        changesEmail == req.Email # <<>> /\ req.Email # user.Email
        withName == IF req.Name # "" THEN [user EXCEPT !.Name = req.Name] ELSE user
        renamed == IF req.Password # ""
                   THEN [withName EXCEPT !.Password = HashPassword(req.Password)]
                   ELSE withName
        updated == IF changesEmail THEN [renamed EXCEPT !.Email = req.Email] ELSE renamed
        first == Update(db, renamed)
        saved == Update(db, updated)
    IN  IF user = NilUser THEN Result(NilResponse, "user not found", db)
        ELSE IF changesEmail /\ GetByEmail(db, req.Email) # NilUser
        THEN Result(NilResponse, "email already exists", first.db)
        ELSE IF saved.err # ""
        THEN Result(NilResponse, "failed to update user: Duplicate entry", db)
        ELSE Result(UserResponse(updated), "", saved.db)

UpdateUser(db, userID, req) ==
    LET user == GetByID(db, userID)
        changesEmail == req.Email # <<>> /\ req.Email # user.Email
        withEmail == IF changesEmail THEN [user EXCEPT !.Email = req.Email] ELSE user
        withName == IF req.Name # "" THEN [withEmail EXCEPT !.Name = req.Name]
                    ELSE withEmail
        updated == IF req.Password # ""
                   THEN [withName EXCEPT !.Password = HashPassword(req.Password)]
                   ELSE withName
        saved == Update(db, updated)
    IN  IF user = NilUser THEN Result(NilResponse, "user not found", db)
        ELSE IF changesEmail /\ GetByEmail(db, req.Email) # NilUser
        THEN Result(NilResponse, "email already exists", db)
        ELSE IF saved.err # ""
        THEN Result(NilResponse, "failed to update user: Duplicate entry", db)
        ELSE Result(UserResponse(updated), "", saved.db)

\* userUsecase.DeleteUser
DeleteUser(db, userID) ==
    IF GetByID(db, userID) = NilUser THEN Result(NilResponse, "user not found", db)
    ELSE Result(NilResponse, "", Delete(db, userID))

\* userUsecase.GetAllUsers
GetAllUsers(db, limit, offset) ==
    LET users == GetAll(db, limit, offset)
    IN  Result([i \in DOMAIN users |-> UserResponse(users[i])], "", db)

\* ------------------------------------------------------------ handlers
StatusOK == 200
StatusCreated == 201
StatusBadRequest == 400
StatusNotFound == 404
StatusMethodNotAllowed == 405
StatusConflict == 409
StatusInternalServerError == 500

\* writeSuccessResponse(w, data, statusCode)
writeSuccessResponse(w, data, statusCode) ==
    [header |-> ("Content-Type" :> "application/json") @@ w.header,
     status |-> IF w.status = 0 THEN statusCode ELSE w.status,
     body |-> Append(w.body, data)]

\* request bodies: no body at all, bytes that are not JSON, or a JSON object
\* given by its name, email and password members (an absent member decodes to
\* the zero value)
NoBody == [eof |-> TRUE]
Malformed == [malformed |-> TRUE]
\* json.NewDecoder(r.Body).Decode(&req) succeeds
Decodes(body) == "Email" \in DOMAIN body

\* r.Context().Value(key).(uint)
ContextUintNonZero(ctx, key) ==
    IF key \in DOMAIN ctx /\ ctx[key].type = "uint" /\ ctx[key].val # 0
    THEN [val |-> ctx[key].val, ok |-> TRUE]
    ELSE [val |-> 0, ok |-> FALSE]
ContextUint(ctx, key) ==
    IF key \in DOMAIN ctx /\ ctx[key].type = "uint"
    THEN [val |-> ctx[key].val, ok |-> TRUE]
    ELSE [val |-> 0, ok |-> FALSE]

\* path segments that match [0-9]+, with their digits
Numerals == ("0" :> <<"0">>) @@ ("1" :> <<"1">>) @@ ("2" :> <<"2">>)
            @@ ("3" :> <<"3">>)
\* mux.Vars(r)
Vars(r) == IF "vars" \in DOMAIN r.ctx THEN r.ctx["vars"].val ELSE EmptyMap

\* what a handler leaves behind: the response and the table
Done(w, db) == [w |-> w, db |-> db]

\* AuthHandler.Register without its tests of the decoded fields
HandleRegisterUnchecked(w, r, db) ==
    LET req == IF Decodes(r.Body) THEN r.Body ELSE [Name |-> "", Email |-> <<>>, Password |-> ""]
        res == Register(db, req)
    IN  IF r.Method # "POST"
        THEN Done(writeErrorResponse(w, "Method not allowed", StatusMethodNotAllowed), db)
        ELSE IF res.err = "user with this email already exists"
        THEN Done(writeErrorResponse(w, res.err, StatusConflict), db)
        ELSE IF res.err # ""
        THEN Done(writeErrorResponse(w, "Failed to register user",
                                     StatusInternalServerError), db)
        ELSE Done(writeSuccessResponse(
                      w, [message |-> "User registered successfully", user |-> res.res],
                      StatusCreated), res.db)

\* AuthHandler.Register
HandleRegister(w, r, db) ==
    LET req == r.Body
        res == Register(db, req)
    IN  IF r.Method # "POST"
        THEN Done(writeErrorResponse(w, "Method not allowed", StatusMethodNotAllowed), db)
        ELSE IF ~Decodes(req)
        THEN Done(writeErrorResponse(w, "Invalid request body", StatusBadRequest), db)
        ELSE IF req.Name = "" \/ req.Email = <<>> \/ req.Password = ""
        THEN Done(writeErrorResponse(w, "Name, email, and password are required",
                                     StatusBadRequest), db)
        ELSE IF Len(req.Password) < 6
        THEN Done(writeErrorResponse(w, "Password must be at least 6 characters",
                                     StatusBadRequest), db)
        ELSE IF res.err = "user with this email already exists"
        THEN Done(writeErrorResponse(w, res.err, StatusConflict), db)
        ELSE IF res.err # ""
        THEN Done(writeErrorResponse(w, "Failed to register user",
                                     StatusInternalServerError), db)
        ELSE Done(writeSuccessResponse(
                      w, [message |-> "User registered successfully", user |-> res.res],
                      StatusCreated), res.db)

\* AuthHandler.Login
HandleLogin(w, r, db, secret, t1, t2, t3) ==
    LET req == r.Body
        res == Login(db, req, secret, t1, t2, t3)
    IN  IF r.Method # "POST"
        THEN Done(writeErrorResponse(w, "Method not allowed", StatusMethodNotAllowed), db)
        ELSE IF ~Decodes(req)
        THEN Done(writeErrorResponse(w, "Invalid request body", StatusBadRequest), db)
        ELSE IF req.Email = <<>> \/ req.Password = ""
        THEN Done(writeErrorResponse(w, "Email and password are required",
                                     StatusBadRequest), db)
        ELSE IF res.err = "invalid email or password"
        THEN Done(writeErrorResponse(w, res.err, StatusUnauthorized), db)
        ELSE IF res.err # ""
        THEN Done(writeErrorResponse(w, "Login failed", StatusInternalServerError), db)
        ELSE Done(writeSuccessResponse(
                      w, [message |-> "Login successful", token |-> res.res.Token,
                          user |-> res.res.User],
                      StatusOK), db)

\* UserHandler.GetProfile looking the user up by the email of the context
HandleGetProfileByEmail(w, r, db) ==
    LET userID == ContextUint(r.ctx, "user_id")
        user == GetByEmail(db, r.ctx["user_email"].val)
    IN  IF r.Method # "GET"
        THEN Done(writeErrorResponse(w, "Method not allowed", StatusMethodNotAllowed), db)
        ELSE IF ~userID.ok
        THEN Done(writeErrorResponse(w, "Invalid user context", StatusUnauthorized), db)
        ELSE IF user = NilUser
        THEN Done(writeErrorResponse(w, "user not found", StatusNotFound), db)
        ELSE Done(writeSuccessResponse(
                      w, [message |-> "Profile retrieved successfully",
                          user |-> UserResponse(user)],
                      StatusOK), db)

\* UserHandler.GetProfile
HandleGetProfile(w, r, db) ==
    LET userID == ContextUint(r.ctx, "user_id")
        res == GetProfile(db, userID.val)
    IN  IF r.Method # "GET"
        THEN Done(writeErrorResponse(w, "Method not allowed", StatusMethodNotAllowed), db)
        ELSE IF ~userID.ok
        THEN Done(writeErrorResponse(w, "Invalid user context", StatusUnauthorized), db)
        ELSE IF res.err = "user not found"
        THEN Done(writeErrorResponse(w, res.err, StatusNotFound), db)
        ELSE IF res.err # ""
        THEN Done(writeErrorResponse(w, "Failed to get profile",
                                     StatusInternalServerError), db)
        ELSE Done(writeSuccessResponse(
                      w, [message |-> "Profile retrieved successfully", user |-> res.res],
                      StatusOK), db)

\* UserHandler.CreateUser
HandleCreateUser(w, r, db) ==
    LET req == r.Body
        res == CreateUser(db, req)
    IN  IF r.Method # "POST"
        THEN Done(writeErrorResponse(w, "Method not allowed", StatusMethodNotAllowed), db)
        ELSE IF ~Decodes(req)
        THEN Done(writeErrorResponse(w, "Invalid request body", StatusBadRequest), db)
        ELSE IF req.Name = "" \/ req.Email = <<>> \/ req.Password = ""
        THEN Done(writeErrorResponse(w, "Name, email, and password are required",
                                     StatusBadRequest), db)
        ELSE IF Len(req.Password) < 6
        THEN Done(writeErrorResponse(w, "Password must be at least 6 characters",
                                     StatusBadRequest), db)
        ELSE IF res.err = "user with this email already exists"
        THEN Done(writeErrorResponse(w, res.err, StatusConflict), db)
        ELSE IF res.err # ""
        THEN Done(writeErrorResponse(w, "Failed to create user",
                                     StatusInternalServerError), db)
        ELSE Done(writeSuccessResponse(
                      w, [message |-> "User created successfully", user |-> res.res],
                      StatusCreated), res.db)

\* UserHandler.GetUser
HandleGetUser(w, r, db) ==
    LET vars == Vars(r)
        res == GetUserByID(db, ParseUint(Numerals[vars["id"]]))
    IN  IF r.Method # "GET"
        THEN Done(writeErrorResponse(w, "Method not allowed", StatusMethodNotAllowed), db)
        ELSE IF "id" \notin DOMAIN vars
        THEN Done(writeErrorResponse(w, "User ID is required", StatusBadRequest), db)
        ELSE IF vars["id"] \notin DOMAIN Numerals
        THEN Done(writeErrorResponse(w, "Invalid user ID", StatusBadRequest), db)
        ELSE IF res.err = "user not found"
        THEN Done(writeErrorResponse(w, res.err, StatusNotFound), db)
        ELSE IF res.err # ""
        THEN Done(writeErrorResponse(w, "Failed to get user",
                                     StatusInternalServerError), db)
        ELSE Done(writeSuccessResponse(
                      w, [message |-> "User retrieved successfully", user |-> res.res],
                      StatusOK), db)

\* the tail UpdateUser and UpdateUserByID share: decode, validate, update
UpdateAndRespond(w, r, db, userID) ==
    LET req == r.Body
        res == UpdateUser(db, userID, req)
    IN  IF ~Decodes(req)
        THEN Done(writeErrorResponse(w, "Invalid request body", StatusBadRequest), db)
        ELSE IF req.Password # "" /\ Len(req.Password) < 6
        THEN Done(writeErrorResponse(w, "Password must be at least 6 characters",
                                     StatusBadRequest), db)
        ELSE IF res.err = "user not found"
        THEN Done(writeErrorResponse(w, res.err, StatusNotFound), db)
        ELSE IF res.err = "email already exists"
        THEN Done(writeErrorResponse(w, res.err, StatusConflict), db)
        ELSE IF res.err # ""
        THEN Done(writeErrorResponse(w, "Failed to update user",
                                     StatusInternalServerError), db)
        ELSE Done(writeSuccessResponse(
                      w, [message |-> "User updated successfully", user |-> res.res],
                      StatusOK), res.db)

\* UserHandler.UpdateUser taking the id a body names for the user to change
HandleUpdateUserNamedInBody(w, r, db) ==
    LET userID == ContextUint(r.ctx, "user_id")
    IN  IF r.Method # "PUT"
        THEN Done(writeErrorResponse(w, "Method not allowed", StatusMethodNotAllowed), db)
        ELSE IF ~userID.ok
        THEN Done(writeErrorResponse(w, "Invalid user context", StatusUnauthorized), db)
        ELSE IF "ID" \in DOMAIN r.Body THEN UpdateAndRespond(w, r, db, r.Body.ID)
        ELSE UpdateAndRespond(w, r, db, userID.val)

\* UserHandler.UpdateUser
HandleUpdateUser(w, r, db) ==
    LET userID == ContextUint(r.ctx, "user_id")
    IN  IF r.Method # "PUT"
        THEN Done(writeErrorResponse(w, "Method not allowed", StatusMethodNotAllowed), db)
        ELSE IF ~userID.ok
        THEN Done(writeErrorResponse(w, "Invalid user context", StatusUnauthorized), db)
        ELSE UpdateAndRespond(w, r, db, userID.val)

\* UserHandler.UpdateUserByID
HandleUpdateUserByID(w, r, db) ==
    LET vars == Vars(r)
    IN  IF r.Method # "PUT"
        THEN Done(writeErrorResponse(w, "Method not allowed", StatusMethodNotAllowed), db)
        ELSE IF "id" \notin DOMAIN vars
        THEN Done(writeErrorResponse(w, "User ID is required", StatusBadRequest), db)
        ELSE IF vars["id"] \notin DOMAIN Numerals
        THEN Done(writeErrorResponse(w, "Invalid user ID", StatusBadRequest), db)
        ELSE UpdateAndRespond(w, r, db, ParseUint(Numerals[vars["id"]]))

\* the tail DeleteUser and DeleteUserByID share
DeleteAndRespond(w, db, userID) ==
    LET res == DeleteUser(db, userID)
    IN  IF res.err = "user not found"
        THEN Done(writeErrorResponse(w, res.err, StatusNotFound), db)
        ELSE IF res.err # ""
        THEN Done(writeErrorResponse(w, "Failed to delete user",
                                     StatusInternalServerError), db)
        ELSE Done(writeSuccessResponse(w, [message |-> "User deleted successfully"],
                                       StatusOK), res.db)

\* UserHandler.DeleteUser
HandleDeleteUser(w, r, db) ==
    LET userID == ContextUint(r.ctx, "user_id")
    IN  IF r.Method # "DELETE"
        THEN Done(writeErrorResponse(w, "Method not allowed", StatusMethodNotAllowed), db)
        ELSE IF ~userID.ok
        THEN Done(writeErrorResponse(w, "Invalid user context", StatusUnauthorized), db)
        ELSE DeleteAndRespond(w, db, userID.val)

\* UserHandler.DeleteUserByID
HandleDeleteUserByID(w, r, db) ==
    LET vars == Vars(r)
    IN  IF r.Method # "DELETE"
        THEN Done(writeErrorResponse(w, "Method not allowed", StatusMethodNotAllowed), db)
        ELSE IF "id" \notin DOMAIN vars
        THEN Done(writeErrorResponse(w, "User ID is required", StatusBadRequest), db)
        ELSE IF vars["id"] \notin DOMAIN Numerals
        THEN Done(writeErrorResponse(w, "Invalid user ID", StatusBadRequest), db)
        ELSE DeleteAndRespond(w, db, ParseUint(Numerals[vars["id"]]))

\* UserHandler.GetAllUsers, for a request without limit and offset parameters
HandleGetAllUsers(w, r, db) ==
    LET limit == 10
        offset == 0
        res == GetAllUsers(db, limit, offset)
    IN  IF r.Method # "GET"
        THEN Done(writeErrorResponse(w, "Method not allowed", StatusMethodNotAllowed), db)
        ELSE Done(writeSuccessResponse(
                      w, [message |-> "Users retrieved successfully", users |-> res.res,
                          count |-> Len(res.res), limit |-> limit, offset |-> offset],
                      StatusOK), db)

\* healthCheckHandler, rootHandler, versionHandler
HandleInfo(w, what) == writeSuccessResponse(w, [info |-> what], StatusOK)

\* ------------------------------------------------------------ routes
\* A URL path is the sequence of its segments. A route is a path template with
\* its methods and handler; a subrouter a path prefix with its middlewares and
\* routes.
Route(path, methods, handler) ==
    [kind |-> "route", path |-> path, methods |-> methods, handler |-> handler]
Subrouter(prefix, middlewares, routes) ==
    [kind |-> "subrouter", prefix |-> prefix, middlewares |-> middlewares,
     routes |-> routes]

IDTemplate == "{id:[0-9]+}"

\* setupPublicRoutes
PublicRoutes ==
    <<Subrouter(<<"api", "auth">>, <<>>,
        <<Route(<<"register">>, {"POST", "OPTIONS"}, "Register"),
          Route(<<"login">>, {"POST", "OPTIONS"}, "Login")>>)>>

\* setupProtectedRoutes with no middleware on the subrouter
UnprotectedRoutes ==
    <<Subrouter(<<"api">>, <<>>,
        <<Route(<<"profile">>, {"GET", "OPTIONS"}, "GetProfile"),
          Route(<<"profile">>, {"PUT", "OPTIONS"}, "UpdateUser"),
          Route(<<"profile">>, {"DELETE", "OPTIONS"}, "DeleteUser"),
          Route(<<"users">>, {"POST", "OPTIONS"}, "CreateUser"),
          Route(<<"users">>, {"GET", "OPTIONS"}, "GetAllUsers"),
          Route(<<"users", IDTemplate>>, {"GET", "OPTIONS"}, "GetUser"),
          Route(<<"users", IDTemplate>>, {"PUT", "OPTIONS"}, "UpdateUserByID"),
          Route(<<"users", IDTemplate>>, {"DELETE", "OPTIONS"}, "DeleteUserByID")>>)>>

\* setupProtectedRoutes: setupProfileRoutes and setupUserManagementRoutes
ProtectedRoutes ==
    <<Subrouter(<<"api">>, <<"AuthMiddleware">>,
        <<Route(<<"profile">>, {"GET", "OPTIONS"}, "GetProfile"),
          Route(<<"profile">>, {"PUT", "OPTIONS"}, "UpdateUser"),
          Route(<<"profile">>, {"DELETE", "OPTIONS"}, "DeleteUser"),
          Route(<<"users">>, {"POST", "OPTIONS"}, "CreateUser"),
          Route(<<"users">>, {"GET", "OPTIONS"}, "GetAllUsers"),
          Route(<<"users", IDTemplate>>, {"GET", "OPTIONS"}, "GetUser"),
          Route(<<"users", IDTemplate>>, {"PUT", "OPTIONS"}, "UpdateUserByID"),
          Route(<<"users", IDTemplate>>, {"DELETE", "OPTIONS"}, "DeleteUserByID")>>)>>

\* setupHealthRoutes
HealthRoutes ==
    <<Route(<<"health">>, {"GET", "OPTIONS"}, "healthCheckHandler"),
      Route(<<>>, {"GET", "OPTIONS"}, "rootHandler")>>

\* SetupV1Routes
V1Routes ==
    <<Subrouter(<<"api", "v1">>, <<>>,
        <<Subrouter(<<"auth">>, <<>>,
            <<Route(<<"register">>, {"POST", "OPTIONS"}, "Register"),
              Route(<<"login">>, {"POST", "OPTIONS"}, "Login")>>),
          Route(<<"version">>, {"GET", "OPTIONS"}, "versionHandler")>>)>>

\* the four groups SetupRoutes registers, in its order
RouteGroups == <<PublicRoutes, ProtectedRoutes, HealthRoutes, V1Routes>>

\* the routes of the main router when the groups are registered in this order
RECURSIVE Registered(_)
Registered(order) ==
    IF order = <<>> THEN <<>> ELSE RouteGroups[Head(order)] \o Registered(Tail(order))

\* SetupRoutes: the order of registration
SetupOrder == <<1, 2, 3, 4>>

\* ---- gorilla/mux matching
NoMatch == [handler |-> "nil", chain |-> <<>>, err |-> "nil", vars |-> EmptyMap]
Matched(ok, match) == [ok |-> ok, match |-> match]

\* a path template matches a path, segment by segment
SegmentMatches(template, segment) ==
    IF template = IDTemplate THEN segment \in DOMAIN Numerals ELSE template = segment
PathMatches(template, path) ==
    /\ Len(template) = Len(path)
    /\ \A i \in DOMAIN template : SegmentMatches(template[i], path[i])
PathVars(template, path) ==
    IF \E i \in DOMAIN template : template[i] = IDTemplate
    THEN "id" :> path[CHOOSE i \in DOMAIN template : template[i] = IDTemplate]
    ELSE EmptyMap

\* Route.Match drops an ErrNotFound left by a subrouter that did not match
IgnoreNotFound(match) ==
    IF match.err = "ErrNotFound" THEN [match EXCEPT !.err = "nil"] ELSE match

RECURSIVE RouteMatch(_, _, _, _)
RECURSIVE RouterMatch(_, _, _, _, _, _)

\* Router.Match from route i on: the first route that matches wins and the
\* router's middlewares are wrapped around its handler
RouterMatch(routes, i, middlewares, base, req, match) ==
    IF i > Len(routes)
    THEN IF match.err = "ErrMethodMismatch" THEN Matched(FALSE, match)
         ELSE Matched(FALSE, [match EXCEPT !.err = "ErrNotFound"])
    ELSE LET res == RouteMatch(routes[i], base, req, match)
         IN  IF res.ok
             THEN Matched(TRUE, IF res.match.err = "nil"
                                THEN [res.match EXCEPT !.chain = middlewares \o @]
                                ELSE res.match)
             ELSE RouterMatch(routes, i + 1, middlewares, base, req, res.match)

\* Route.Match of a route of a router mounted at the prefix base
RouteMatch(route, base, req, match) ==
    IF route.kind = "subrouter"
    THEN IF ~HasPrefix(req.URL, base \o route.prefix)
         THEN Matched(FALSE, IgnoreNotFound(match))
         ELSE LET sub == RouterMatch(route.routes, 1, route.middlewares,
                                     base \o route.prefix, req, match)
              IN  IF sub.ok THEN sub ELSE Matched(FALSE, IgnoreNotFound(sub.match))
    ELSE IF ~PathMatches(base \o route.path, req.URL)
         THEN Matched(FALSE, IgnoreNotFound(match))
         ELSE IF req.Method \notin route.methods
         THEN Matched(FALSE, [match EXCEPT !.err = "ErrMethodMismatch"])
         ELSE Matched(TRUE, [handler |-> route.handler, chain |-> <<>>, err |-> "nil",
                             vars |-> PathVars(base \o route.path, req.URL)])

\* ---- the middlewares and the handlers behind the router
CORSHeaders ==
    ("Access-Control-Allow-Origin" :> "*")
    @@ ("Access-Control-Allow-Methods" :> "GET, POST, PUT, DELETE, OPTIONS")
    @@ ("Access-Control-Allow-Headers" :> "Content-Type, Authorization")

\* w.Header().Set for each header of a map
SetHeaders(w, headers) == [w EXCEPT !.header = headers @@ @]
\* w.WriteHeader
WriteHeader(w, statusCode) ==
    [w EXCEPT !.status = IF @ = 0 THEN statusCode ELSE @]

\* what the gate wrote on its own recorder, written to the response w
WriteThrough(w, written) ==
    [header |-> written.header @@ w.header,
     status |-> IF w.status = 0 THEN written.status ELSE w.status,
     body |-> w.body \o written.body]

\* one served request: the response, the table, and the stages that ran with
\* the request each of them received
Outcome(w, db, trace) == [w |-> w, db |-> db, trace |-> trace]
Stage(name, r) == [stage |-> name, r |-> r]

\* the handler a route names
Handle(handler, w, r, db, secret, t1, t2, t3) ==
    CASE handler = "Register" -> HandleRegister(w, r, db)
      [] handler = "Login" -> HandleLogin(w, r, db, secret, t1, t2, t3)
      [] handler = "GetProfile" -> HandleGetProfile(w, r, db)
      [] handler = "UpdateUser" -> HandleUpdateUser(w, r, db)
      [] handler = "DeleteUser" -> HandleDeleteUser(w, r, db)
      [] handler = "CreateUser" -> HandleCreateUser(w, r, db)
      [] handler = "GetAllUsers" -> HandleGetAllUsers(w, r, db)
      [] handler = "GetUser" -> HandleGetUser(w, r, db)
      [] handler = "UpdateUserByID" -> HandleUpdateUserByID(w, r, db)
      [] handler = "DeleteUserByID" -> HandleDeleteUserByID(w, r, db)
      [] OTHER -> Done(HandleInfo(w, handler), db)

\* CORSMiddleware calling next for an OPTIONS request too
CORSMiddlewareNoShortCircuit(w, r) ==
    [w |-> SetHeaders(w, CORSHeaders), next |-> <<r>>]

\* CORSMiddleware: the response it leaves and the requests it hands to next
CORSMiddleware(w, r) ==
    IF r.Method = "OPTIONS"
    THEN [w |-> WriteHeader(SetHeaders(w, CORSHeaders), StatusOK), next |-> <<>>]
    ELSE [w |-> SetHeaders(w, CORSHeaders), next |-> <<r>>]

\* a chain whose gate also asks the store for the user of the token
RECURSIVE ChainRevoking(_, _, _, _, _, _, _, _, _, _)
ChainRevoking(chain, handler, w, r, db, secret, t1, t2, t3, trace) ==
    IF chain = <<>>
    THEN LET done == Handle(handler, w, r, db, secret, t1, t2, t3)
         IN  Outcome(done.w, done.db, Append(trace, Stage(handler, r)))
    ELSE IF Head(chain) = "CORSMiddleware"
    THEN LET cors == CORSMiddleware(w, r)
             seen == Append(trace, Stage("CORSMiddleware", r))
         IN  IF cors.next = <<>> THEN Outcome(cors.w, db, seen)
             ELSE ChainRevoking(Tail(chain), handler, cors.w, cors.next[1], db,
                                secret, t1, t2, t3, seen)
    ELSE LET gate == AuthMiddleware(secret, r, t1)
             seen == Append(trace, Stage("AuthMiddleware", r))
         IN  IF gate.next = <<>> THEN Outcome(WriteThrough(w, gate.w), db, seen)
             ELSE IF GetByID(db, gate.next[1].ctx["user_id"].val) = NilUser
             THEN Outcome(writeErrorResponse(w, "Invalid token", StatusUnauthorized),
                          db, seen)
             ELSE ChainRevoking(Tail(chain), handler, w, gate.next[1], db, secret,
                                t1, t2, t3, seen)

\* the chain of middlewares around a handler, outermost first
RECURSIVE Chain(_, _, _, _, _, _, _, _, _, _)
Chain(chain, handler, w, r, db, secret, t1, t2, t3, trace) ==
    IF chain = <<>>
    THEN LET done == Handle(handler, w, r, db, secret, t1, t2, t3)
         IN  Outcome(done.w, done.db, Append(trace, Stage(handler, r)))
    ELSE IF Head(chain) = "CORSMiddleware"
    THEN LET cors == CORSMiddleware(w, r)
             seen == Append(trace, Stage("CORSMiddleware", r))
         IN  IF cors.next = <<>> THEN Outcome(cors.w, db, seen)
             ELSE Chain(Tail(chain), handler, cors.w, cors.next[1], db, secret,
                        t1, t2, t3, seen)
    ELSE LET gate == AuthMiddleware(secret, r, t1)
             seen == Append(trace, Stage("AuthMiddleware", r))
         IN  IF gate.next = <<>> THEN Outcome(WriteThrough(w, gate.w), db, seen)
             ELSE Chain(Tail(chain), handler, w, gate.next[1], db, secret,
                        t1, t2, t3, seen)

\* mux.Router.ServeHTTP for the routes registered in this order; the clock reads
\* t1, t2 and t3 at the successive time.Now() calls of the request
ServeRouter(order, r, db, secret, t1, t2, t3) ==
    LET found == RouterMatch(Registered(order), 1, <<"CORSMiddleware">>, <<>>, r,
                             NoMatch)
        routed == [r EXCEPT !.ctx = ("vars" :> [type |-> "vars",
                                                val |-> found.match.vars]) @@ @]
    IN  IF found.ok
        THEN Chain(found.match.chain, found.match.handler, NewResponseWriter,
                   routed, db, secret, t1, t2, t3, <<>>)
        ELSE IF found.match.err = "ErrMethodMismatch"
        THEN Outcome(WriteHeader(NewResponseWriter, StatusMethodNotAllowed), db, <<>>)
        ELSE Outcome([header |-> ("Content-Type" :> "text/plain; charset=utf-8"),
                      status |-> StatusNotFound,
                      body |-> <<[text |-> "404 page not found"]>>], db, <<>>)

\* ------------------------------------------------------------ state
VARIABLES
    now,        \* the wall clock, in ticks
    jwtSecret,  \* the secret AuthMiddleware was built with
    issued,     \* the latest GenerateJWT call: its arguments and its result
    out,        \* the operation performed last and what it returned
    db,         \* the users table behind the repository
    inflight    \* the requests and calls being processed concurrently

vars == <<now, jwtSecret, issued, out, db, inflight>>

\* the state of the server around the codec and the gate
serverVars == <<db, inflight>>

NoToken == [none |-> TRUE]

\* What a client can present once it holds the issued token. A crafted token is
\* named by the algorithm its header declares, the claims of its payload and
\* its signature segment:
\*   claims "issued"    the claims GenerateJWT signed
\*          "other"     the same with another user id
\*          "postdated" the same dated one token lifetime later
\*   sig    "mac"       a MAC under some key (of the declared method when it is
\*                      an HMAC, else HMAC-SHA256)
\*          "old"       the signature segment of the issued token
\*          "empty"     no signature (what alg "none" produces)
\*          "rsa"       an RSA signature
CraftedAlgs == {"HS256", "HS384", "RS256", "none"}

SigChoices ==
    {[kind |-> "mac", key |-> k] : k \in Secrets}
    \cup {[kind |-> "old"], [kind |-> "empty"], [kind |-> "rsa"]}

TokenChoices ==
    {[alg |-> alg, claims |-> "issued", sig |-> sg] :
        alg \in CraftedAlgs, sg \in SigChoices}
    \cup {[alg |-> "HS256", claims |-> "other", sig |-> sg] :
             sg \in SigChoices \ {[kind |-> "empty"], [kind |-> "rsa"]}}
    \cup {[alg |-> "HS256", claims |-> "postdated", sig |-> sg] :
             sg \in {[kind |-> "mac", key |-> k] : k \in Secrets}}

OtherUserID(id) == CHOOSE other \in UserIDs : other # id

CraftedClaims(which) ==
    CASE which = "issued" -> issued.claims
      [] which = "other" ->
            [issued.claims EXCEPT !.UserID = OtherUserID(@)]
      [] which = "postdated" ->
            [issued.claims EXCEPT !.ExpiresAt = @ + TokenLifetime,
                                  !.IssuedAt = @ + TokenLifetime,
                                  !.NotBefore = @ + TokenLifetime]

CraftedSignature(sg, alg, signingString) ==
    CASE sg.kind = "mac" ->
            <<HMACSign(IF alg \in HMACMethods THEN alg ELSE "HS256",
                       signingString, sg.key)>>
      [] sg.kind = "old" -> <<issued.token[5]>>
      [] sg.kind = "empty" -> <<>>
      [] sg.kind = "rsa" ->
            <<[seg |-> "sig", alg |-> "RS256", key |-> "rsa-private-key",
               msg |-> signingString]>>

Craft(c) ==
    LET signingString ==
            <<HeaderSegment(c.alg), Dot, ClaimsSegment(CraftedClaims(c.claims))>>
    IN  signingString \o <<Dot>> \o CraftedSignature(c.sig, c.alg, signingString)

\* Authorization header values that carry no well-formed token
PlainAuthorizations ==
    {<<>>,
     Str(<<"B", "e", "a", "r", "e", "r">>),
     BearerPrefix,
     Str(<<"b", "e", "a", "r", "e", "r", " ", "x">>),
     Str(<<"T", "o", "k", "e", "n", " ", "a", "b", "c">>),
     BearerPrefix \o Str(<<"a", ".", "b", ".", "c">>),
     BearerPrefix \o Str(<<"a", "b", "c">>)}

\* requests as they reach the middleware, before an Authorization header is set
BareRequests ==
    {[Method |-> "GET", URL |-> "/api/profile", Header |-> EmptyMap,
      Body |-> "", ctx |-> EmptyMap],
     [Method |-> "PUT", URL |-> "/api/users/7",
      Header |-> ("Content-Type" :> "application/json"),
      Body |-> "{\"name\":\"n\"}",
      ctx |-> ("route" :> String(<<"7">>))]}

SetAuthorization(r, a) == [r EXCEPT !.Header = ("Authorization" :> a) @@ r.Header]

\* ------------------------------------------------------------ actions
\* operations run one at a time: each starts when the result of the one before
\* has been taken
Idle == [op |-> "idle"]

Init ==
    /\ now = 0
    /\ jwtSecret \in Secrets
    /\ issued = NoToken
    /\ out = Idle
    /\ db = <<>>
    /\ inflight = EmptyMap

\* time passes between two operations
Advance(t) ==
    /\ out = Idle
    /\ t \in ClockPoints
    /\ t > now
    /\ now' = t
    /\ UNCHANGED <<jwtSecret, issued, out, db, inflight>>

\* a call GenerateJWT(userID, email, secretKey); the clock reads t1 = now at the
\* first time.Now() and may tick before each of the other two
CallGenerateJWT(userID, email, secretKey, t2, t3) ==
    /\ out = Idle
    /\ t2 \in ClockPoints /\ t3 \in ClockPoints
    /\ now <= t2 /\ t2 <= now + MaxSkew
    /\ t2 <= t3 /\ t3 <= t2 + MaxSkew
    /\ LET token == GenerateJWT(userID, email, secretKey, now, t2, t3)
       IN  /\ issued' = [userID |-> userID, email |-> email, secretKey |-> secretKey,
                         token |-> token,
                         claims |-> NewClaims(userID, email, now, t2, t3)]
           /\ out' = [op |-> "GenerateJWT", token |-> token, err |-> ""]
    /\ now' = t3
    /\ UNCHANGED <<jwtSecret, db, inflight>>

\* a direct call ValidateJWT(tokenString, secretKey)
CallValidateJWT(tokenString, secretKey) ==
    /\ out = Idle
    /\ LET res == ValidateJWT(tokenString, secretKey, now)
       IN  out' = [op |-> "ValidateJWT", tokenString |-> tokenString,
                   secretKey |-> secretKey, claims |-> res.claims, err |-> res.err]
    /\ UNCHANGED <<now, jwtSecret, issued, db, inflight>>

\* one request served by AuthMiddleware(jwtSecret)(next)
ServeHTTP(r) ==
    /\ out = Idle
    /\ LET h == AuthMiddleware(jwtSecret, r, now)
       IN  out' = [op |-> "ServeHTTP", r |-> r, w |-> h.w, next |-> h.next,
                   validated |-> h.validated]
    /\ UNCHANGED <<now, jwtSecret, issued, db, inflight>>

\* the caller takes the result of the operation
Return ==
    /\ out # Idle
    /\ out' = Idle
    /\ UNCHANGED <<now, jwtSecret, issued, db, inflight>>

Next ==
    \/ \E t \in ClockPoints : Advance(t)
    \/ \E userID \in UserIDs, email \in Emails, secretKey \in Secrets,
          t2 \in ClockPoints, t3 \in ClockPoints :
            CallGenerateJWT(userID, email, secretKey, t2, t3)
    \/ \E secretKey \in Secrets : CallValidateJWT(<<>>, secretKey)
    \/ \E c \in TokenChoices, secretKey \in Secrets :
            issued # NoToken /\ CallValidateJWT(Craft(c), secretKey)
    \/ \E r \in BareRequests : ServeHTTP(r)
    \/ \E r \in BareRequests, a \in PlainAuthorizations :
            ServeHTTP(SetAuthorization(r, a))
    \/ \E r \in BareRequests, c \in TokenChoices :
            issued # NoToken
            /\ ServeHTTP(SetAuthorization(r, BearerPrefix \o Craft(c)))
    \/ Return

Spec == Init /\ [][Next]_vars

\* ------------------------------------------------------------ the server
\* The process main builds: one users table, the use cases and the gate built
\* with the same secret, the router of SetupRoutes in front of them.
Addresses == {<<"b">>, <<"a", "\"", "<">>}

Body(name, email, password) == [Name |-> name, Email |-> email, Password |-> password]

Request(method, url, body) ==
    [Method |-> method, URL |-> url, Header |-> EmptyMap, Body |-> body,
     ctx |-> EmptyMap]

\* the paths of the routes that need no token, and of those behind the gate
AuthPaths ==
    {<<"api", "auth", "register">>, <<"api", "auth", "login">>,
     <<"api", "v1", "auth", "register">>, <<"api", "v1", "auth", "login">>}
InfoPaths == {<<>>, <<"health">>, <<"api", "v1", "version">>}
ProtectedPaths ==
    {<<"api", "profile">>, <<"api", "users">>, <<"api", "users", "1">>,
     <<"api", "users", "2">>}
\* paths no route is registered for
UnknownPaths == {<<"api", "v1", "profile">>, <<"api", "users", "x">>}

\* what clients of the API send. Bodies: a registration or login for an
\* address, a change of password alone, a password that is too short, bytes
\* that are not JSON.
Credentials == {Body("n", e, "secret1") : e \in Addresses}
NewPassword == Body("", <<>>, "secret2")
\* the same change in a body that also names user 2, a field UpdateUserRequest
\* does not have
NamingAnother == [Name |-> "", Email |-> <<>>, Password |-> "secret2", ID |-> 2]

PublicRequests ==
    {Request("POST", <<"api", "auth", "register">>, b) :
        b \in Credentials \cup {Body("n", <<"b">>, "abc")}}
    \cup {Request("POST", <<"api", "auth", "login">>, b) :
              b \in Credentials \cup {Body("n", <<"b">>, "secret2"), Malformed}}
    \cup {Request("POST", <<"api", "v1", "auth", "register">>,
                  Body("n", <<"b">>, "secret1")),
          Request("POST", <<"api", "v1", "auth", "login">>,
                  Body("n", <<"b">>, "secret1"))}

ProtectedRequests ==
    {Request(m, p, NoBody) : m \in {"GET", "DELETE"},
                             p \in ProtectedPaths \ {<<"api", "users">>}}
    \cup {Request("GET", <<"api", "users">>, NoBody)}
    \cup {Request("POST", <<"api", "users">>, b) : b \in Credentials}
    \cup {Request("PUT", <<"api", "profile">>, b) :
              b \in Credentials \cup {NewPassword, NamingAnother, Malformed}}
    \cup {Request("PUT", p, b) :
              p \in {<<"api", "users", "1">>, <<"api", "users", "2">>},
              b \in {NewPassword, Body("n", <<"b">>, "secret1")}}

\* bodies that decode and fail the handlers' tests of the fields
InvalidBodies ==
    {Body("", <<"b">>, "secret1"), Body("n", <<>>, "secret1"), Body("n", <<"b">>, ""),
     Body("n", <<"b">>, "abc")}

\* every method on every path, for the router
Methods == {"GET", "POST", "PUT", "DELETE", "OPTIONS"}
RouterRequests ==
    {Request(m, p, NoBody) :
        m \in {"GET", "DELETE", "OPTIONS"},
        p \in InfoPaths \cup AuthPaths \cup ProtectedPaths \cup UnknownPaths}
    \cup {Request(m, p, b) :
              m \in {"POST", "PUT"},
              p \in InfoPaths \cup AuthPaths \cup ProtectedPaths \cup UnknownPaths,
              b \in {Malformed, Body("n", <<"b">>, "secret1")} \cup InvalidBodies}

\* the Authorization headers a client sends: none, no token, the token it holds
HeldTokens == IF issued = NoToken THEN {} ELSE {BearerPrefix \o issued.token}
NoTokens == {<<>>, BearerPrefix \o Str(<<"a", "b", "c">>)}

\* the handler the router of SetupRoutes finds for a request
Routed(r) ==
    RouterMatch(Registered(SetupOrder), 1, <<"CORSMiddleware">>, <<>>, r,
                NoMatch).match.handler

ReachedLogin(trace) == \E i \in DOMAIN trace : trace[i].stage = "Login"
LoggedIn(w) ==
    /\ w.status = StatusOK
    /\ Len(w.body) = 1
    /\ "token" \in DOMAIN w.body[1]

ServerInit ==
    /\ now = 0
    /\ jwtSecret = "k1"
    /\ issued = NoToken
    /\ out = Idle
    /\ db = <<>>
    /\ inflight = EmptyMap

\* one request served by the router from start to end. The clock reads now when
\* the request is taken up; Login's GenerateJWT reads it twice more, at t2 and
\* t3. The client keeps the token of a successful login, or the one it held.
ServeRequest(r, t2, t3, keep) ==
    /\ out = Idle
    /\ t2 \in ClockPoints /\ t3 \in ClockPoints
    /\ now <= t2 /\ t2 <= now + MaxSkew
    /\ t2 <= t3 /\ t3 <= t2 + MaxSkew
    /\ keep => issued # NoToken
    /\ (r.Method = "POST" /\ Routed(r) = "Login") \/ (t2 = now /\ t3 = now /\ ~keep)
    /\ \E served \in {ServeRouter(SetupOrder, r, db, jwtSecret, now, t2, t3)} :
          /\ Len(served.db) <= MaxUsers
          /\ db' = served.db
          /\ out' = [op |-> "Request", r |-> r, w |-> served.w,
                     trace |-> served.trace, before |-> db, at |-> <<now, t2, t3>>]
          /\ IF ReachedLogin(served.trace) /\ LoggedIn(served.w)
             THEN IF keep THEN issued' = issued
                  ELSE \E user \in {GetByEmail(db, r.Body.Email)} :
                          issued' = [userID |-> user.ID, email |-> user.Email,
                                     secretKey |-> jwtSecret,
                                     token |-> served.w.body[1].token,
                                     claims |-> NewClaims(user.ID, user.Email,
                                                          now, t2, t3)]
             ELSE (t2 = now /\ t3 = now /\ ~keep) /\ issued' = issued
    /\ now' = t3
    /\ UNCHANGED <<jwtSecret, inflight>>

\* a token for user id 0, signed with the server's secret
IssueZero(t2, t3) == CallGenerateJWT(0, <<"b">>, jwtSecret, t2, t3)

\* the hours after a login are explored by the codec and the gate alone: here
\* the clock stays within the first instants of the first day
ServerNext ==
    \/ \E t \in ClockPoints : t <= MaxOffset /\ Advance(t)
    \/ \E r \in PublicRequests, t2 \in ClockPoints, t3 \in ClockPoints,
          keep \in BOOLEAN :
            ServeRequest(r, t2, t3, keep)
    \/ \E r \in ProtectedRequests, a \in {<<>>} \cup HeldTokens :
            ServeRequest(SetAuthorization(r, a), now, now, FALSE)
    \/ \E t2 \in ClockPoints, t3 \in ClockPoints : IssueZero(t2, t3)
    \/ Return

ServerSpec == ServerInit /\ [][ServerNext]_vars

\* requests of every method to every path, with and without a token
RouterNext ==
    \/ \E r \in RouterRequests, a \in NoTokens \cup HeldTokens,
          t2 \in ClockPoints, t3 \in ClockPoints :
            ServeRequest(SetAuthorization(r, a), t2, t3, FALSE)
    \/ Return

RouterSpec == ServerInit /\ [][RouterNext]_vars


\* ============================================================ properties
\* ---- vocabulary of the properties
Served == out.op = "ServeHTTP"
Validated == out.op = "ValidateJWT"
AuthHeader == HeaderGet(out.r.Header, "Authorization")
\* what follows the first seven characters of a header value
Remainder(h) == SubSeq(h, Len(BearerPrefix) + 1, Len(h))
NextInvoked == Len(out.next) >= 1
Rejected == out.next = <<>>

\* tokenString has the three segments of a token: header, claims, signature
ThreeSegments(tokenString) ==
    LET parts == Split(tokenString)
    IN  /\ Len(parts) = 3
        /\ IsSegment(parts[1], "header")
        /\ IsSegment(parts[2], "claims")
DeclaredAlg(tokenString) == Split(tokenString)[1][1].alg
SignedPayload(tokenString) == Split(tokenString)[2][1]
SigningString(tokenString) ==
    LET parts == Split(tokenString) IN parts[1] \o <<Dot>> \o parts[2]

\* the signature segment is the MAC of the signing string under secret, by
\* HMAC method alg
MacUnder(tokenString, alg, secret) ==
    Split(tokenString)[3] = <<HMACSign(alg, SigningString(tokenString), secret)>>

\* the signature verifies under secret: the token declares an HMAC method and
\* carries the MAC of that method under secret
SignatureVerifies(tokenString, secret) ==
    /\ ThreeSegments(tokenString)
    /\ DeclaredAlg(tokenString) \in HMACMethods
    /\ MacUnder(tokenString, DeclaredAlg(tokenString), secret)

\* t lies in [not_before, expires_at) of the token
WithinValidity(tokenString, t) ==
    /\ TimeOf(SignedPayload(tokenString).nbf) <= t
    /\ t < TimeOf(SignedPayload(tokenString).exp)

\* C1: a request is handed to the next handler if and only if its Authorization
\* header is "Bearer " followed by a non-empty token whose signature verifies
\* under the configured secret and the time of the request lies in
\* [not_before, expires_at) of the token; every other request is rejected (401).
C1_AcceptedIffValid ==
    Served =>
        /\ NextInvoked <=>
              /\ HasPrefix(AuthHeader, BearerPrefix)
              /\ Remainder(AuthHeader) # <<>>
              /\ SignatureVerifies(Remainder(AuthHeader), jwtSecret)
              /\ WithinValidity(Remainder(AuthHeader), now)
        /\ ~NextInvoked => out.w.status = StatusUnauthorized

\* a request carrying the issued token is accepted after time has passed
C1_Witness ==
    /\ Served
    /\ NextInvoked
    /\ AuthHeader = BearerPrefix \o issued.token
    /\ now > TimeOf(issued.claims.NotBefore)

\* C2: a served request ends in exactly one of two outcomes: authenticated (next
\* invoked exactly once, nothing written by the gate) or unauthenticated (401
\* written with one JSON body that has the key "error", next never invoked);
\* the gate validates at most once.
Authenticated ==
    /\ Len(out.next) = 1
    /\ out.w = NewResponseWriter
Unauthenticated ==
    /\ out.next = <<>>
    /\ out.w.status = StatusUnauthorized
    /\ Len(out.w.body) = 1
    /\ "error" \in DOMAIN out.w.body[1]
C2_ExactlyOneOutcome ==
    Served =>
        /\ Authenticated \/ Unauthenticated
        /\ ~(Authenticated /\ Unauthenticated)
        /\ Len(out.validated) <= 1

\* a request rejected after its token was validated
C2_Witness ==
    /\ Served
    /\ Unauthenticated
    /\ Len(out.validated) = 1

\* ---- the issued token handed to ValidateJWT
ValidatedIssued ==
    /\ Validated
    /\ issued # NoToken
    /\ out.tokenString = issued.token
IssuedWindow ==
    /\ TimeOf(issued.claims.NotBefore) <= now
    /\ now < TimeOf(issued.claims.ExpiresAt)

C5_ExpiryBoundary ==
    (ValidatedIssued /\ out.secretKey = issued.secretKey) =>
        LET T == TimeOf(issued.claims.IssuedAt)
            lifetime == TokenLifetime * TicksPerSecond
        IN  /\ (T <= now /\ now < T + lifetime) => out.err = ""
            /\ now >= T + lifetime => out.err # ""

RejectionKind(h) ==
    IF h = <<>> THEN "missing header"
    ELSE IF ~HasPrefix(h, BearerPrefix) THEN "no Bearer prefix"
    ELSE IF Remainder(h) = <<>> THEN "empty token"
    ELSE "failed validation"

\* the same request under another Authorization header, served at the same time
Alternative(a) == AuthMiddleware(jwtSecret, SetAuthorization(out.r, a), now)

C8_UniformInvalidToken ==
    (Served /\ Rejected /\ RejectionKind(AuthHeader) = "failed validation") =>
        /\ \A c \in TokenChoices :
              issued # NoToken =>
                  LET other == Alternative(BearerPrefix \o Craft(c))
                  IN  other.next = <<>> => other.w = out.w
        /\ \A a \in PlainAuthorizations :
              (RejectionKind(a) = "failed validation"
                  /\ Alternative(a).next = <<>>) => Alternative(a).w = out.w
        /\ out.w.body[1].error
              # ValidateJWT(Remainder(AuthHeader), jwtSecret, now).err

\* an expired token is refused while other tokens fail for other reasons
C8_Witness ==
    /\ Served
    /\ Rejected
    /\ RejectionKind(AuthHeader) = "failed validation"
    /\ ValidateJWT(Remainder(AuthHeader), jwtSecret, now).err = "token is expired"
    /\ \E c \in TokenChoices :
          ValidateJWT(Craft(c), jwtSecret, now).err = "token signature is invalid"

\* C9: a request whose Authorization header is absent, lacks the exact prefix
\* "Bearer " or has nothing after it is rejected with 401 without any call of
\* ValidateJWT; ValidateJWT is only ever called with a non-empty token.
C9_ExtractionOrder ==
    Served =>
        /\ (\/ AuthHeader = <<>>
            \/ ~HasPrefix(AuthHeader, BearerPrefix)
            \/ Remainder(AuthHeader) = <<>>) =>
              /\ out.w.status = StatusUnauthorized
              /\ out.validated = <<>>
              /\ out.next = <<>>
        /\ \A i \in DOMAIN out.validated : out.validated[i].tokenString # <<>>

\* "Bearer " with nothing after it is rejected before any validation
C9_Witness ==
    /\ Served
    /\ AuthHeader = BearerPrefix
    /\ out.w.status = StatusUnauthorized
    /\ out.validated = <<>>

\* C10: the next handler receives the request with method, URL, headers and
\* body unchanged and a context extended by exactly user_id (a uint) and
\* user_email (a string), holding the values signed in the token.
C10_NextRequest ==
    (Served /\ NextInvoked) =>
        LET given == out.next[1]
            signed == SignedPayload(Remainder(AuthHeader))
        IN  /\ given.Method = out.r.Method
            /\ given.URL = out.r.URL
            /\ given.Header = out.r.Header
            /\ given.Body = out.r.Body
            /\ DOMAIN given.ctx = DOMAIN out.r.ctx \cup {"user_id", "user_email"}
            /\ \A k \in DOMAIN out.r.ctx \ {"user_id", "user_email"} :
                  given.ctx[k] = out.r.ctx[k]
            /\ given.ctx["user_id"] = Uint(ParseUint(signed.user_id))
            /\ given.ctx["user_email"] = String(UnescapeJSON(signed.email))

\* a PUT request with a body and a context of its own is passed on
C10_Witness ==
    /\ Served
    /\ NextInvoked
    /\ out.r.Method = "PUT"
    /\ DOMAIN out.r.ctx # {}
    /\ out.next[1].ctx["user_id"].val >= 10

\* ---- the clock readings of GenerateJWT calls
Signature(tokenString) == tokenString[5]

\* C15: the claims GenerateJWT signs satisfy not_before = issued_at and
\* expires_at = issued_at + 24 hours, also when the clock advances during the
\* call.
C15_ClaimTimestamps ==
    issued # NoToken =>
        /\ issued.claims.NotBefore = issued.claims.IssuedAt
        /\ issued.claims.ExpiresAt = issued.claims.IssuedAt + TokenLifetime

\* the token a call with the arguments of the issued one returns when its three
\* time.Now() calls return r[1], r[2] and r[3]
Reissued(r) ==
    GenerateJWT(issued.userID, issued.email, issued.secretKey, r[1], r[2], r[3])
At(t) == <<t, t, t>>

\* C16 as stated: two GenerateJWT calls for the same identity and secret made
\* at two different instants return tokens with different signatures.
C16_Freshness ==
    issued # NoToken =>
        \A t1 \in ClockPoints, t2 \in ClockPoints :
            (t1 # t2 /\ Reissued(At(t1)) = issued.token) =>
                Signature(Reissued(At(t2))) # Signature(issued.token)

\* the clock readings a GenerateJWT call can make
Readings ==
    {r \in ClockPoints \X ClockPoints \X ClockPoints :
        /\ r[1] <= r[2] /\ r[2] <= r[1] + MaxSkew
        /\ r[2] <= r[3] /\ r[3] <= r[2] + MaxSkew}

SameSecond(r1, r2) ==
    \A i \in 1..3 : NewNumericDate(r1[i]) = NewNumericDate(r2[i])

\* C16 as amended: for the same identity and secret, two GenerateJWT calls whose
\* first clock readings fall in different whole seconds (so any two calls one
\* second or more apart) return tokens with different signatures; two calls
\* whose readings fall in the same seconds, the same instants included, sign
\* identical claims and return the same token.
C16_FreshAcrossSeconds ==
    issued # NoToken =>
        \A r1 \in Readings :
            Reissued(r1) = issued.token =>
                \A r2 \in Readings :
                    /\ NewNumericDate(r1[1]) # NewNumericDate(r2[1]) =>
                          Signature(Reissued(r2)) # Signature(issued.token)
                    /\ SameSecond(r1, r2) =>
                          /\ NewClaims(issued.userID, issued.email,
                                       r2[1], r2[2], r2[3]) = issued.claims
                          /\ Reissued(r2) = issued.token

\* a token issued half a second into a second: a call half a second earlier
\* returns the same token, a call half a second later another one
C16_Witness ==
    /\ issued # NoToken
    /\ \E t \in ClockPoints :
          /\ t % TicksPerSecond = 1
          /\ now = t
          /\ Reissued(At(t)) = issued.token
          /\ Reissued(At(t - 1)) = issued.token
          /\ Signature(Reissued(At(t + 1))) # Signature(issued.token)

\* C18: a ValidateJWT call changes nothing but its own result, and the claims
\* it returns for a valid token are the claims every other call with the same
\* token and secret returns at any time inside the token's validity window.
C18_Idempotent ==
    [][(out = Idle /\ out'.op = "ValidateJWT") =>
          /\ UNCHANGED <<now, jwtSecret, issued, db, inflight>>
          /\ out'.err = "" =>
                \A t \in ClockPoints :
                    WithinValidity(out'.tokenString, t) =>
                        ValidateJWT(out'.tokenString, out'.secretKey, t)
                            = [claims |-> out'.claims, err |-> ""]]_vars

\* the issued token validated on the day of its issue, at a later instant than
\* the one it was issued at
C18_Witness ==
    /\ ValidatedIssued
    /\ out.err = ""
    /\ out.claims = issued.claims
    /\ now > TimeOf(issued.claims.NotBefore) + TicksPerSecond

\* ------------------------------------------------------------ the routes
\* the orders in which the four groups of routes can be registered and tried
Orders == {order \in [1 .. 4 -> 1 .. 4] : \A i, j \in 1 .. 4 : order[i] = order[j] => i = j}

Gates == {"CORSMiddleware", "AuthMiddleware"}
\* the positions of a trace where a handler, or the authentication gate, ran
HandlerRuns(trace) == {i \in DOMAIN trace : trace[i].stage \notin Gates}
GateRuns(trace) == {i \in DOMAIN trace : trace[i].stage = "AuthMiddleware"}

\* the requests a public route is registered for
ToPublicRoute(r) ==
    \/ r.Method = "POST" /\ r.URL \in AuthPaths
    \/ r.Method = "GET" /\ r.URL \in InfoPaths

\* C11: for a request that is not OPTIONS, a handler of /api/profile, /api/users
\* or /api/users/{id} runs only after the authentication gate has authenticated
\* the request and handed it on; register and login under /api/auth and
\* /api/v1/auth, /api/v1/version, /health and / are reached with the gate never
\* run; and the outcome is the same in whatever order the groups of routes are
\* registered and tried.
C11_RouteProtection ==
    (out.op = "Request" /\ out.r.Method # "OPTIONS") =>
        /\ out.r.URL \in ProtectedPaths =>
              \A i \in HandlerRuns(out.trace) :
                  \E j \in GateRuns(out.trace) :
                      /\ j < i
                      /\ AuthMiddleware(jwtSecret, out.trace[j].r, out.at[1]).next
                            = <<out.trace[i].r>>
                      /\ "user_id" \in DOMAIN out.trace[i].r.ctx
        /\ out.r.URL \in AuthPaths \cup InfoPaths => GateRuns(out.trace) = {}
        /\ ToPublicRoute(out.r) =>
              /\ Len(out.trace) = 2
              /\ HandlerRuns(out.trace) = {2}
        /\ \A order \in Orders :
              ServeRouter(order, out.r, out.before, jwtSecret, out.at[1], out.at[2],
                          out.at[3])
                  = Outcome(out.w, db, out.trace)

\* a protected handler ran behind the gate and answered 200
C11_Witness ==
    /\ out.op = "Request"
    /\ out.r.Method = "PUT"
    /\ out.r.URL = <<"api", "users", "1">>
    /\ HandlerRuns(out.trace) = {3}
    /\ GateRuns(out.trace) = {2}
    /\ out.w.status = StatusOK

\* the requests a protected route is registered for
ToProtectedRoute(r) ==
    \/ r.URL = <<"api", "profile">> /\ r.Method \in {"GET", "PUT", "DELETE"}
    \/ r.URL = <<"api", "users">> /\ r.Method \in {"GET", "POST"}
    \/ /\ r.URL \in ProtectedPaths \ {<<"api", "profile">>, <<"api", "users">>}
       /\ r.Method \in {"GET", "PUT", "DELETE"}

\* the three Access-Control-Allow-* headers are on a response
AllowsCrossOrigin(w) ==
    /\ {"Access-Control-Allow-Origin", "Access-Control-Allow-Methods",
        "Access-Control-Allow-Headers"} \subseteq DOMAIN w.header
    /\ w.header["Access-Control-Allow-Origin"] = "*"
    /\ w.header["Access-Control-Allow-Methods"] = "GET, POST, PUT, DELETE, OPTIONS"
    /\ w.header["Access-Control-Allow-Headers"] = "Content-Type, Authorization"

\* C12: every OPTIONS request to a registered route, protected or not, with or
\* without credentials, is answered by the CORS gate with status 200 and the
\* three Access-Control-Allow-* headers, and neither the authentication gate nor
\* a handler runs for it; a request of another method to a registered route
\* passes the CORS gate first, which sets the same headers and hands the request
\* it received to the next stage, once.
C12_PreflightFirst ==
    out.op = "Request" =>
        /\ (out.r.Method = "OPTIONS"
                /\ out.r.URL \in AuthPaths \cup InfoPaths \cup ProtectedPaths) =>
              /\ out.w.status = StatusOK
              /\ AllowsCrossOrigin(out.w)
              /\ out.w.body = <<>>
              /\ Len(out.trace) = 1
              /\ out.trace[1].stage = "CORSMiddleware"
              /\ db = out.before
        /\ (ToPublicRoute(out.r) \/ ToProtectedRoute(out.r)) =>
              /\ AllowsCrossOrigin(out.w)
              /\ Len(out.trace) >= 2
              /\ {i \in DOMAIN out.trace : out.trace[i].stage = "CORSMiddleware"} = {1}
              /\ out.trace[2].r = out.trace[1].r
              /\ out.trace[2].stage =
                    IF ToProtectedRoute(out.r) THEN "AuthMiddleware" ELSE Routed(out.r)

\* a preflight request to a protected route, sent with a valid token
C12_Witness ==
    /\ out.op = "Request"
    /\ out.r.Method = "OPTIONS"
    /\ out.r.URL = <<"api", "profile">>
    /\ issued # NoToken
    /\ HeaderGet(out.r.Header, "Authorization") = BearerPrefix \o issued.token
    /\ out.w.status = StatusOK

\* ------------------------------------------------------------ login and gate
\* the Login handler answered with a token
LoginSucceeded == out.op = "Request" /\ ReachedLogin(out.trace) /\ LoggedIn(out.w)

\* the request the handler behind the gate received when the bearer presents
\* the token to a protected route at time t: <<>> when the gate refused
Presented(probe, token, t) ==
    LET served == ServeRouter(SetupOrder, SetAuthorization(probe, BearerPrefix \o token),
                              db, jwtSecret, t, t, t)
    IN  [i \in HandlerRuns(served.trace) |-> served.trace[i].r]

\* the handler ran for the identity of this user
RanFor(reached, user) ==
    /\ DOMAIN reached = {3}
    /\ "user_id" \in DOMAIN reached[3].ctx
    /\ "user_email" \in DOMAIN reached[3].ctx
    /\ reached[3].ctx["user_id"] = Uint(user.ID)
    /\ reached[3].ctx["user_email"] = String(user.Email)

\* the end of the validity of a token Login issued in a request taken up at t1
LoginExpiry(t1) == TimeOf(NewNumericDate(t1)) + DayTicks

\* C13 as stated: a token of a successful login, presented to a protected route
\* less than 24 hours after the login request was taken up, passes the gate as
\* the stored user.
C13_LoginThenGate ==
    LoginSucceeded =>
        LET token == out.w.body[1].token
            user == GetByEmail(out.before, out.r.Body.Email)
        IN  /\ token # <<>>
            /\ \A t \in ClockPoints, probe \in ProtectedRequests :
                  (out.at[3] <= t /\ t < out.at[1] + DayTicks) =>
                      RanFor(Presented(probe, token, t), user)

\* C13: when Login succeeds for a stored user the response carries a non-empty
\* token in the field token, and that token presented as Bearer <token> to any
\* protected route of the same process, after the login has answered and before
\* the whole second in which the login was taken up plus 24 hours, passes the
\* gate with user_id the stored user's ID and user_email the stored user's email.
C13_LoginThenGateWholeSeconds ==
    LoginSucceeded =>
        LET token == out.w.body[1].token
            user == GetByEmail(out.before, out.r.Body.Email)
        IN  /\ user # NilUser
            /\ token # <<>>
            /\ \A t \in ClockPoints, probe \in ProtectedRequests :
                  (out.at[3] <= t /\ t < LoginExpiry(out.at[1])) =>
                      RanFor(Presented(probe, token, t), user)

\* a login taken up at 1.0 s whose token is still good 23 h 59 min 59.5 s later
C13_Witness ==
    /\ LoginSucceeded
    /\ out.at[1] = TicksPerSecond
    /\ \E t \in ClockPoints :
          /\ t = out.at[1] + DayTicks - 1
          /\ RanFor(Presented(Request("GET", <<"api", "profile">>, NoBody),
                              out.w.body[1].token, t),
                    GetByEmail(out.before, out.r.Body.Email))

\* ------------------------------------------------------------ no revocation
\* the request carries the token the client holds
WithHeldToken(r) ==
    /\ issued # NoToken
    /\ HeaderGet(r.Header, "Authorization") = BearerPrefix \o issued.token

\* C14: the gate's decision depends on the header, the configured secret and the
\* time of the request alone, never on the table of users: whatever DeleteUser,
\* UpdateUser and Login calls have been served since a token was issued, the
\* token is accepted on every protected route, when the next request is taken
\* up, while it has not expired.
C14_NoRevocation ==
    /\ (out.op = "Request" /\ GateRuns(out.trace) # {}) =>
          (HandlerRuns(out.trace) # {}
              <=> AuthMiddleware(jwtSecret, out.trace[2].r, out.at[1]).next # <<>>)
    /\ (out = Idle /\ issued # NoToken /\ issued.secretKey = jwtSecret /\ IssuedWindow) =>
          \A probe \in ProtectedRequests :
              DOMAIN Presented(probe, issued.token, now) = {3}

\* the token of a user who has since been deleted, or whose email has since
\* changed, opened a protected route
C14_Witness ==
    /\ out.op = "Request"
    /\ WithHeldToken(out.r)
    /\ HandlerRuns(out.trace) = {3}
    /\ issued.userID # 0
    /\ \/ GetByID(out.before, issued.userID) = NilUser
       \/ GetByID(out.before, issued.userID).Email # issued.email
    /\ \E i \in DOMAIN db : db[i].ID # issued.userID

\* ------------------------------------------------------------ user id 0
\* no JSON document of the response says this
NeverSays(w, message) ==
    \A i \in DOMAIN w.body : "error" \in DOMAIN w.body[i] => w.body[i].error # message

\* C17: user id 0 is an identity like any other: GenerateJWT(0, email, secret)
\* returns a token, ValidateJWT of it returns UserID 0, the gate attaches
\* user_id 0 and calls the handler, and the profile handlers take the 0 of the
\* context as a present identity and look the user up, never answering
\* "Invalid user context".
C17_ZeroIdentity ==
    (issued # NoToken /\ issued.userID = 0) =>
        /\ issued.token # <<>>
        /\ IssuedWindow =>
              ValidateJWT(issued.token, issued.secretKey, now)
                  = [claims |-> issued.claims, err |-> ""]
        /\ issued.claims.UserID = 0
        /\ (out.op = "Request" /\ WithHeldToken(out.r)
                /\ out.r.URL = <<"api", "profile">>) =>
              /\ HandlerRuns(out.trace) = {3}
              /\ out.trace[3].r.ctx["user_id"] = Uint(0)
              /\ NeverSays(out.w, "Invalid user context")
              /\ out.w.status # StatusUnauthorized
              /\ out.r.Method \in {"GET", "DELETE"} =>
                    /\ out.w.status = StatusNotFound
                    /\ out.w.body = <<[error |-> "user not found"]>>

\* the profile of user id 0 was asked for and looked up
C17_Witness ==
    /\ out.op = "Request"
    /\ WithHeldToken(out.r)
    /\ issued.userID = 0
    /\ out.r.Method = "GET"
    /\ out.r.URL = <<"api", "profile">>
    /\ out.w.status = StatusNotFound

\* ------------------------------------------------------------ the email of a token
\* the token the client holds with another email in it, signed by the server
WithEmail(email) == SignedString([issued.claims EXCEPT !.Email = email], jwtSecret)

\* C20: a request that passed the gate to a protected handler, and the same
\* request with a valid token that differs in its email alone (same user id),
\* get the same response and leave the same table of users: lookups and changes
\* go by user_id or by the id of the URL.
C20_EmailNoAuthority ==
    (out.op = "Request" /\ WithHeldToken(out.r) /\ out.r.URL \in ProtectedPaths
        /\ HandlerRuns(out.trace) = {3}) =>
        \A email \in Addresses \cup Emails :
            LET other == ServeRouter(SetupOrder,
                                     SetAuthorization(out.r, BearerPrefix \o WithEmail(email)),
                                     out.before, jwtSecret, out.at[1], out.at[2], out.at[3])
            IN  /\ HandlerRuns(other.trace) = {3}
                /\ other.trace[3].stage = out.trace[3].stage
                /\ other.trace[3].r.ctx["user_email"] = String(email)
                /\ other.w = out.w
                /\ other.db = db

\* a profile was changed by a request whose token names an email that no row
\* of the table has
C20_Witness ==
    /\ out.op = "Request"
    /\ WithHeldToken(out.r)
    /\ out.r.Method = "PUT"
    /\ out.r.URL = <<"api", "profile">>
    /\ out.w.status = StatusOK
    /\ db # out.before
    /\ GetByEmail(out.before, issued.email) = NilUser

\* ------------------------------------------------------------ concurrency
\* net/http runs every request on a goroutine of its own, and GenerateJWT is
\* called from any of them. Each goroutine has its own locals; they share the
\* clock and the secret the gate closed over. inflight holds the locals of the
\* goroutines in the gate (gate) and in GenerateJWT (issue), each at its place
\* in the code.
GateProcs == 1 .. MaxRequests
IssueProcs == 1 .. MaxIssuers
NotRunning == [pc |-> "idle"]

\* the claims a goroutine of the gate got from its ValidateJWT call
ClaimsOfLatest(gate, p) ==
    IF \E q \in DOMAIN gate : q # p /\ gate[q].pc = "attach"
    THEN gate[CHOOSE q \in DOMAIN gate : q # p /\ gate[q].pc = "attach"].res[1].claims
    ELSE gate[p].res[1].claims
ClaimsOf(gate, p) == gate[p].res[1].claims

\* tokens the clients already hold: user 1's from 0 s, user 2's from 1 s
EarlierTokens ==
    {GenerateJWT(1, <<"b">>, "k1", 0, 0, 0),
     GenerateJWT(2, <<"a", "\"", "<">>, "k1", TicksPerSecond, TicksPerSecond,
                 TicksPerSecond)}

ConcInit ==
    /\ now = 0
    /\ jwtSecret = "k1"
    /\ issued = NoToken
    /\ out = Idle
    /\ db = <<>>
    /\ inflight = [gate |-> [p \in GateProcs |-> NotRunning],
                   issue |-> [g \in IssueProcs |-> NotRunning]]

\* a request reaches the handler AuthMiddleware returned
Arrive(p, r) ==
    /\ inflight.gate[p] = NotRunning
    /\ inflight' = [inflight EXCEPT !.gate[p] =
                        [pc |-> "header", r |-> r, w |-> NewResponseWriter,
                         token |-> <<>>, res |-> <<>>, next |-> <<>>, at |-> 0]]
    /\ UNCHANGED <<now, jwtSecret, issued, out, db>>

\* from r.Header.Get("Authorization") to strings.TrimPrefix and its test
ReadHeader(p) ==
    /\ inflight.gate[p].pc = "header"
    /\ LET q == inflight.gate[p]
           authHeader == HeaderGet(q.r.Header, "Authorization")
           token == TrimPrefix(authHeader, BearerPrefix)
           refused(message) ==
               [q EXCEPT !.pc = "done",
                         !.w = writeErrorResponse(q.w, message, StatusUnauthorized)]
       IN  inflight' = [inflight EXCEPT !.gate[p] =
                IF authHeader = <<>> THEN refused("Authorization header required")
                ELSE IF ~HasPrefix(authHeader, BearerPrefix)
                THEN refused("Invalid authorization header format")
                ELSE IF token = <<>> THEN refused("Token required")
                ELSE [q EXCEPT !.pc = "validate", !.token = token]]
    /\ UNCHANGED <<now, jwtSecret, issued, out, db>>

\* claims, err := utils.ValidateJWT(token, jwtSecret) and the test of err
Validate(p) ==
    /\ inflight.gate[p].pc = "validate"
    /\ LET q == inflight.gate[p]
           res == ValidateJWT(q.token, jwtSecret, now)
       IN  inflight' = [inflight EXCEPT !.gate[p] =
                IF res.err # ""
                THEN [q EXCEPT !.pc = "done", !.at = now, !.res = <<res>>,
                               !.w = writeErrorResponse(q.w, "Invalid token",
                                                        StatusUnauthorized)]
                ELSE [q EXCEPT !.pc = "attach", !.at = now, !.res = <<res>>]]
    /\ UNCHANGED <<now, jwtSecret, issued, out, db>>

\* the two context.WithValue calls and next.ServeHTTP(w, r.WithContext(ctx))
CallNext(p) ==
    /\ inflight.gate[p].pc = "attach"
    /\ LET q == inflight.gate[p]
           claims == ClaimsOf(inflight.gate, p)
           ctx == WithValue(WithValue(q.r.ctx, "user_id", Uint(claims.UserID)),
                            "user_email", String(claims.Email))
       IN  inflight' = [inflight EXCEPT !.gate[p] =
                [q EXCEPT !.pc = "done", !.next = <<WithContext(q.r, ctx)>>]]
    /\ UNCHANGED <<now, jwtSecret, issued, out, db>>

\* GenerateJWT is entered and evaluates the ExpiresAt field of the literal
StartIssue(g, userID, email) ==
    /\ inflight.issue[g] = NotRunning
    /\ inflight' = [inflight EXCEPT !.issue[g] =
                        [pc |-> "iat", userID |-> userID, email |-> email,
                         t |-> <<now>>,
                         exp |-> NewNumericDate(now + TokenLifetime * TicksPerSecond),
                         iat |-> 0, nbf |-> 0, token |-> <<>>]]
    /\ UNCHANGED <<now, jwtSecret, issued, out, db>>

\* the IssuedAt field
ReadIssuedAt(g) ==
    /\ inflight.issue[g].pc = "iat"
    /\ inflight' = [inflight EXCEPT !.issue[g] =
                        [@ EXCEPT !.pc = "nbf", !.t = Append(@, now),
                                  !.iat = NewNumericDate(now)]]
    /\ UNCHANGED <<now, jwtSecret, issued, out, db>>

\* the NotBefore field, then NewWithClaims and SignedString
SignToken(g) ==
    /\ inflight.issue[g].pc = "nbf"
    /\ LET q == inflight.issue[g]
           claims == [UserID |-> q.userID, Email |-> q.email, ExpiresAt |-> q.exp,
                      IssuedAt |-> q.iat, NotBefore |-> NewNumericDate(now)]
           token == SignedString(claims, jwtSecret)
       IN  /\ inflight' = [inflight EXCEPT !.issue[g] =
                    [q EXCEPT !.pc = "done", !.t = Append(@, now),
                              !.nbf = claims.NotBefore, !.token = token]]
           /\ issued' = [userID |-> q.userID, email |-> q.email,
                         secretKey |-> jwtSecret, token |-> token, claims |-> claims]
    /\ UNCHANGED <<now, jwtSecret, out, db>>

\* the clock runs from the start of the first day to the start of the second
ConcNext ==
    \/ \E t \in ClockPoints : t <= DayTicks /\ Advance(t)
    \/ \E p \in GateProcs, a \in {<<>>} \cup {BearerPrefix \o k : k \in EarlierTokens} :
            Arrive(p, SetAuthorization(Request("GET", <<"api", "profile">>, NoBody), a))
    \/ \E p \in GateProcs, a \in HeldTokens :
            Arrive(p, SetAuthorization(Request("GET", <<"api", "profile">>, NoBody), a))
    \/ \E p \in GateProcs : ReadHeader(p)
    \/ \E p \in GateProcs : Validate(p)
    \/ \E p \in GateProcs : CallNext(p)
    \/ \E g \in IssueProcs : StartIssue(g, g, <<"b">>)
    \/ \E g \in IssueProcs : ReadIssuedAt(g)
    \/ \E g \in IssueProcs : SignToken(g)

ConcSpec == ConcInit /\ [][ConcNext]_vars

\* C19: however the steps of concurrent requests in the gate and of concurrent
\* GenerateJWT calls interleave, and however the clock moves between them, each
\* request ends as it would alone at the time of its ValidateJWT call with the
\* same secret: refused with the same response, or handed on with the identity
\* of its own token; each GenerateJWT call returns the token of its own clock
\* readings; and the request a goroutine was given is never changed.
C19_NoInterference ==
    /\ \A p \in GateProcs :
          inflight.gate[p].pc = "done" =>
              LET q == inflight.gate[p]
                  alone == AuthMiddleware(jwtSecret, q.r, q.at)
              IN  /\ q.w = alone.w
                  /\ q.next = alone.next
                  /\ q.r.ctx = EmptyMap
    /\ \A g \in IssueProcs :
          inflight.issue[g].pc = "done" =>
              LET q == inflight.issue[g]
              IN  q.token = GenerateJWT(q.userID, q.email, jwtSecret, q.t[1], q.t[2],
                                        q.t[3])

\* two requests of different users were in the gate together and both were
\* handed on, each as its own user
C19_Witness ==
    /\ \A p \in GateProcs : inflight.gate[p].pc = "done" /\ inflight.gate[p].next # <<>>
    /\ \E p, q \in GateProcs :
          inflight.gate[p].next[1].ctx["user_id"] # inflight.gate[q].next[1].ctx["user_id"]
    /\ \E g \in IssueProcs : inflight.issue[g].pc = "done"

\* ------------------------------------------------------------ failed logins
\* the credentials a client can try
Attempts == {Body("n", e, pw) : e \in Addresses, pw \in {"secret1", "secret2"}}

\* the Login handler called the use case with this body, and it found no such
\* user or another password
LoginRefused(table, body) ==
    /\ Decodes(body)
    /\ body.Email # <<>> /\ body.Password # ""
    /\ \/ GetByEmail(table, body.Email) = NilUser
       \/ ~CheckPassword(body.Password, GetByEmail(table, body.Email).Password)

\* C21: Login with an email no stored user has and Login with a stored email
\* and a wrong password return the same error, invalid email or password, and
\* no token; the handler answers both with 401 and the same body, so any two
\* refused logins against the same table get the same response.
C21_LoginFailuresAlike ==
    (out.op = "Request" /\ ReachedLogin(out.trace) /\ LoginRefused(out.before, out.r.Body)) =>
        /\ Login(out.before, out.r.Body, jwtSecret, out.at[1], out.at[2], out.at[3])
              = Result(NilResponse, "invalid email or password", out.before)
        /\ out.w.status = StatusUnauthorized
        /\ out.w.body = <<[error |-> "invalid email or password"]>>
        /\ db = out.before
        /\ \A attempt \in Attempts :
              LoginRefused(out.before, attempt) =>
                  ServeRouter(SetupOrder, [out.r EXCEPT !.Body = attempt], out.before,
                              jwtSecret, out.at[1], out.at[2], out.at[3])
                      = Outcome(out.w, db, [out.trace EXCEPT ![1].r.Body = attempt,
                                                            ![2].r.Body = attempt])

\* a login with a stored email and a wrong password was refused while another
\* address is unknown to the table
C21_Witness ==
    /\ out.op = "Request"
    /\ ReachedLogin(out.trace)
    /\ LoginRefused(out.before, out.r.Body)
    /\ GetByEmail(out.before, out.r.Body.Email) # NilUser
    /\ \E e \in Addresses : GetByEmail(out.before, e) = NilUser
    /\ out.w.status = StatusUnauthorized

\* ------------------------------------------------------------ validation
\* the handler that ran for the request, "" when none did
HandlerOf(trace) ==
    IF HandlerRuns(trace) = {} THEN ""
    ELSE trace[CHOOSE i \in HandlerRuns(trace) : TRUE].stage

\* the message of the 400 the Register handler answers an unacceptable body with
RegisterObjection(body) ==
    IF ~Decodes(body) THEN "Invalid request body"
    ELSE IF body.Name = "" \/ body.Email = <<>> \/ body.Password = ""
    THEN "Name, email, and password are required"
    ELSE IF Len(body.Password) < 6 THEN "Password must be at least 6 characters"
    ELSE ""
\* and the Login handler
LoginObjection(body) ==
    IF ~Decodes(body) THEN "Invalid request body"
    ELSE IF body.Email = <<>> \/ body.Password = ""
    THEN "Email and password are required"
    ELSE ""

\* tables in which the use case would answer differently: an empty one, and one
\* that holds the address of the bodies
TablesApart ==
    {<<>>,
     <<[ID |-> 1, Name |-> "n", Email |-> <<"b">>, Password |-> HashPassword("abc"),
        Deleted |-> FALSE]>>}

\* the response is a 400 with this message, it is the same over every table,
\* and no table is changed
Answered400(message) ==
    /\ out.w.status = StatusBadRequest
    /\ out.w.body = <<[error |-> message]>>
    /\ db = out.before
    /\ \A table \in TablesApart :
          LET again == ServeRouter(SetupOrder, out.r, table, jwtSecret, out.at[1],
                                   out.at[2], out.at[3])
          IN  again.w = out.w /\ again.db = table

SubjectOf(r, t) ==
    ValidateJWT(TrimPrefix(HeaderGet(r.Header, "Authorization"), BearerPrefix),
                jwtSecret, t).claims.UserID

\* what the use case of a profile route returns, called for this user id
ProfileUseCase(r, table, userID) ==
    CASE r.Method = "GET" -> GetProfile(table, userID)
      [] r.Method = "PUT" -> UpdateUser(table, userID, r.Body)
      [] OTHER -> DeleteUser(table, userID)

\* the profile handler rejected the body before it called the use case
BodyRejected(r) ==
    /\ r.Method = "PUT"
    /\ \/ ~Decodes(r.Body)
       \/ r.Body.Password # "" /\ Len(r.Body.Password) < 6

\* C25: for every request to GET, PUT or DELETE /api/profile that passes the
\* gate, the user id handed to GetProfile, UpdateUser or DeleteUser is the
\* subject id of the presented token, whatever the body contains, and the
\* handler never answers Invalid user context.
C25_ProfileOfSubject ==
    (out.op = "Request" /\ out.r.URL = <<"api", "profile">> /\ HandlerRuns(out.trace) = {3}) =>
        LET subject == SubjectOf(out.r, out.at[1])
            called == ProfileUseCase(out.r, out.before, subject)
        IN  /\ out.trace[3].r.ctx["user_id"] = Uint(subject)
            /\ NeverSays(out.w, "Invalid user context")
            /\ BodyRejected(out.r) => out.w.status = StatusBadRequest /\ db = out.before
            /\ ~BodyRejected(out.r) =>
                  /\ db = called.db
                  /\ called.err = "" <=> out.w.status = StatusOK
                  /\ called.err = "user not found" <=> out.w.status = StatusNotFound
                  /\ called.err = "email already exists" <=> out.w.status = StatusConflict
                  /\ (called.err = "" /\ out.r.Method # "DELETE") =>
                        /\ out.w.body[1].user = called.res
                        /\ out.w.body[1].user.ID = subject

\* user 1 changed the password with a body that names user 2, who exists
C25_Witness ==
    /\ out.op = "Request"
    /\ out.r.Method = "PUT"
    /\ out.r.URL = <<"api", "profile">>
    /\ out.r.Body = NamingAnother
    /\ HandlerRuns(out.trace) = {3}
    /\ SubjectOf(out.r, out.at[1]) = 1
    /\ GetByID(out.before, 2) # NilUser
    /\ out.w.status = StatusOK
    /\ db[1].Password = HashPassword("secret2")
    /\ db[2] = out.before[2]

\* ------------------------------------------------------------ deleted users
\* the address belongs to a user that was deleted, and to no user that is left
OnlyDeletedHas(table, email) ==
    /\ \E i \in DOMAIN table : table[i].Email = email /\ table[i].Deleted
    /\ GetByEmail(table, email) = NilUser

\* C27: after DeleteUser succeeded for a user, Login with the user's email is
\* refused with invalid email or password, and Register with that email
\* succeeds and creates a new user.
C27_RegisterAfterDelete ==
    (out.op = "Request" /\ Decodes(out.r.Body)
        /\ OnlyDeletedHas(out.before, out.r.Body.Email)) =>
        /\ (HandlerOf(out.trace) = "Login" /\ LoginObjection(out.r.Body) = "") =>
              /\ out.w.status = StatusUnauthorized
              /\ out.w.body = <<[error |-> "invalid email or password"]>>
        /\ (HandlerOf(out.trace) = "Register" /\ RegisterObjection(out.r.Body) = "") =>
              /\ out.w.status = StatusCreated
              /\ Len(db) = Len(out.before) + 1
              /\ GetByEmail(db, out.r.Body.Email) # NilUser

\* ------------------------------------------------------------ the workers
\* SetupDefaultWorkers: the workers of the manager, in the order they were added
Workers == <<"UserCountMonitor", "EmailWorker">>
WorkerIDs == DOMAIN Workers

\* sync.WaitGroup.Done that leaves the counter as it is
WgDoneForgotten(n) == n
\* sync.WaitGroup.Done
WgDone(n) == n - 1

\* close of a channel that lets a closed channel be closed again
CloseAgain(closed) == [closed |-> TRUE, panic |-> FALSE]
\* close(done): closing a closed channel panics
Close(closed) == [closed |-> TRUE, panic |-> closed]

\* what a read of the ticker field can return in Stop: Start writes the field
\* on another goroutine with nothing that orders the two, so the read returns
\* nil or, once the field is written, the ticker
TickerReads(ticker) == {"nil"} \cup (IF ticker = "nil" THEN {} ELSE {"ticker"})

\* NewManager, NewUserMonitor, NewEmailWorker: the manager (main) has not
\* started anything; of each worker, the goroutine (go), the ticker its field
\* points to, the tick waiting in ticker.C (pending), the done channel, the
\* Stop calls that returned (stops), and whether its loop took up a tick after
\* a Stop had returned (late)
WorkerInit ==
    /\ now = 0
    /\ jwtSecret = "k1"
    /\ issued = NoToken
    /\ out = Idle
    /\ db = <<>>
    /\ inflight = [main |-> [pc |-> "setup", i |-> 1, calls |-> 0],
                   wg |-> 0,
                   go |-> [w \in WorkerIDs |-> "none"],
                   ticker |-> [w \in WorkerIDs |-> "nil"],
                   pending |-> [w \in WorkerIDs |-> FALSE],
                   done |-> [w \in WorkerIDs |-> FALSE],
                   stops |-> [w \in WorkerIDs |-> 0],
                   late |-> [w \in WorkerIDs |-> FALSE]]

\* a panic ends the process
Running == inflight.main.pc # "panic"
Rest == UNCHANGED <<now, jwtSecret, issued, out, db>>

\* Manager.StartAll: wg.Add(1) and a goroutine for each worker
StartAll ==
    /\ inflight.main.pc = "setup"
    /\ inflight' = [inflight EXCEPT !.main.pc = "started",
                                    !.wg = Len(Workers),
                                    !.go = [w \in WorkerIDs |-> "start"]]
    /\ Rest

\* Manager.StopAll is called and reaches worker.Stop() of the first worker
BeginStopAll ==
    /\ inflight.main.pc \in {"started", "stopped"}
    /\ inflight.main.calls < MaxStopAll
    /\ inflight' = [inflight EXCEPT !.main = [pc |-> "read", i |-> 1, calls |-> @.calls + 1]]
    /\ Rest

\* Stop: if m.ticker != nil
ReadTicker(seen) ==
    /\ inflight.main.pc = "read"
    /\ seen \in TickerReads(inflight.ticker[inflight.main.i])
    /\ inflight' = [inflight EXCEPT !.main.pc = IF seen = "nil" THEN "close" ELSE "stop"]
    /\ Rest

\* Stop: m.ticker.Stop()
StopTicker ==
    /\ inflight.main.pc = "stop"
    /\ inflight' = [inflight EXCEPT !.main.pc = "close",
                                    !.ticker[inflight.main.i] = "stopped"]
    /\ Rest

\* Stop: close(m.done), then the next worker of StopAll's loop, or m.wg.Wait()
CloseDone ==
    /\ inflight.main.pc = "close"
    /\ LET i == inflight.main.i
           closing == Close(inflight.done[i])
       IN  inflight' =
               IF closing.panic THEN [inflight EXCEPT !.main.pc = "panic"]
               ELSE [inflight EXCEPT !.done[i] = closing.closed,
                                     !.stops[i] = @ + 1,
                                     !.main.pc = IF i < Len(Workers) THEN "read" ELSE "wait",
                                     !.main.i = IF i < Len(Workers) THEN i + 1 ELSE i]
    /\ Rest

\* StopAll: m.wg.Wait() returns, and StopAll with it
Wait ==
    /\ inflight.main.pc = "wait"
    /\ inflight.wg = 0
    /\ inflight' = [inflight EXCEPT !.main.pc = "stopped"]
    /\ Rest

\* Start: m.ticker = time.NewTicker(...)
NewTicker(w) ==
    /\ Running
    /\ inflight.go[w] = "start"
    /\ inflight' = [inflight EXCEPT !.go[w] = "select", !.ticker[w] = "running"]
    /\ Rest

\* the runtime sends a tick on ticker.C, a channel that holds one
Tick(w) ==
    /\ Running
    /\ inflight.ticker[w] = "running"
    /\ ~inflight.pending[w]
    /\ inflight' = [inflight EXCEPT !.pending[w] = TRUE]
    /\ Rest

\* Start: select takes case <-m.ticker.C, and the monitor calls userRepo.Count
SelectTick(w) ==
    /\ Running
    /\ inflight.go[w] = "select"
    /\ inflight.pending[w]
    /\ inflight' = [inflight EXCEPT !.go[w] = "tick", !.pending[w] = FALSE,
                                    !.late[w] = @ \/ inflight.stops[w] > 0]
    /\ Rest

\* Start: the case is done and the loop is back at its select
CaseDone(w) ==
    /\ Running
    /\ inflight.go[w] = "tick"
    /\ inflight' = [inflight EXCEPT !.go[w] = "select"]
    /\ Rest

\* Start: select takes case <-m.done and Start returns; the deferred
\* m.wg.Done() of the goroutine runs
SelectDone(w) ==
    /\ Running
    /\ inflight.go[w] = "select"
    /\ inflight.done[w]
    /\ inflight' = [inflight EXCEPT !.go[w] = "exit", !.wg = WgDone(@)]
    /\ Rest

WorkerNext ==
    \/ StartAll
    \/ BeginStopAll
    \/ \E seen \in {"nil", "ticker"} : ReadTicker(seen)
    \/ StopTicker
    \/ CloseDone
    \/ Wait
    \/ \E w \in WorkerIDs : NewTicker(w)
    \/ \E w \in WorkerIDs : Tick(w)
    \/ \E w \in WorkerIDs : SelectTick(w)
    \/ \E w \in WorkerIDs : CaseDone(w)
    \/ \E w \in WorkerIDs : SelectDone(w)

WorkerSpec == WorkerInit /\ [][WorkerNext]_vars

\* every goroutine that can take a step takes one in the end; a select with
\* several cases ready picks among them at random, so a case that is ready
\* again and again is taken in the end. Nothing obliges the caller to call
\* StopAll, nor the ticker to tick.
WorkerFairness ==
    /\ WF_vars(\E seen \in {"nil", "ticker"} : ReadTicker(seen))
    /\ WF_vars(StopTicker)
    /\ WF_vars(CloseDone)
    /\ WF_vars(Wait)
    /\ \A w \in WorkerIDs :
          /\ WF_vars(NewTicker(w))
          /\ WF_vars(CaseDone(w))
          /\ SF_vars(SelectDone(w))

FairWorkerSpec == WorkerSpec /\ WorkerFairness

\* the first StopAll has been called, has returned
FirstStopAllCalled == inflight.main.calls = 1 /\ inflight.main.pc = "read" /\ inflight.main.i = 1
FirstStopAllReturned == inflight.main.calls = 1 /\ inflight.main.pc = "stopped"
AllLeftStart == \A w \in WorkerIDs : inflight.go[w] = "exit"

\* C28: after StartAll and one StopAll, under fair scheduling, StopAll returns in
\* the end and every worker goroutine has left its Start loop by then, however
\* Stop interleaves with the start of the goroutines, Stop running before the
\* ticker exists included.
C28_ShutdownTerminates == FirstStopAllCalled ~> (FirstStopAllReturned /\ AllLeftStart)

\* StopAll has returned after a Stop that ran before the monitor's goroutine
\* had made its ticker: the ticker was never stopped
C28_Witness ==
    /\ FirstStopAllReturned
    /\ AllLeftStart
    /\ inflight.ticker[1] = "running"
    /\ inflight.ticker[2] = "stopped"

\* C29 as stated: once UserMonitor.Stop has returned, the loop of the monitor
\* takes up no further tick, so starts no further userRepo.Count call, and the
\* ticker Start created is stopped.
C29_QuietAfterStop ==
    inflight.stops[1] > 0 =>
        /\ ~inflight.late[1]
        /\ inflight.ticker[1] # "running"

\* C30: the done channel of a worker is closed at most once, and only a single
\* Stop keeps it that way: the second Stop of a worker, so the second StopAll,
\* closes a closed channel and panics; it is not a no-op.
C30_StopOnce ==
    /\ \A w \in WorkerIDs : inflight.stops[w] <= 1
    /\ \A w \in WorkerIDs : inflight.done[w] <=> inflight.stops[w] = 1
    /\ inflight.main.pc = "panic" =>
          /\ inflight.main.calls = 2
          /\ inflight.main.i = 1
          /\ inflight.done[1]
    /\ (inflight.main.calls = 2 /\ inflight.done[1]) =>
          inflight.main.pc \in {"read", "stop", "close", "panic"}
    /\ inflight.main.calls = 2 => inflight.main.i = 1

\* the second StopAll has panicked in the Stop of the first worker
C30_Witness ==
    /\ inflight.main.pc = "panic"
    /\ inflight.main.calls = 2
    /\ inflight.stops = [w \in WorkerIDs |-> 1]

\* ------------------------------------------------------------ use cases, step by step
\* The use cases call the UserRepository one method at a time, and several
\* requests run them at once. inflight.call holds the locals of each running
\* call and the repository methods it has called (made); inflight.unique says
\* which repository the use cases were built with: the gorm one, whose table
\* has a unique index on email, or another implementation of the interface
\* that enforces nothing, as the mock of the tests.
Callers == 1 .. MaxCallers

\* fmt.Errorf("...: %w", err)
Errorf(message, cause) == message \o ": " \o cause
\* the error of a store that cannot be reached
StoreDown == "connection refused"

\* Create and Update of the repository the use cases were built with
StoreCreate(unique, table, user) ==
    IF unique THEN Create(table, user)
    ELSE LET row == [user EXCEPT !.ID = Len(table) + 1]
         IN  [db |-> Append(table, row), user |-> row, err |-> ""]
StoreUpdate(unique, table, user) ==
    IF unique THEN Update(table, user)
    ELSE [db |-> [table EXCEPT ![user.ID] = user], err |-> ""]

\* what a lookup of the repository returned
Seen(user, fails) ==
    IF fails THEN [user |-> NilUser, err |-> StoreDown] ELSE [user |-> user, err |-> ""]

UsecaseInit ==
    /\ now = 0
    /\ jwtSecret = "k1"
    /\ issued = NoToken
    /\ out = Idle
    /\ db = <<>>
    /\ \E unique \in BOOLEAN :
          inflight = [call |-> [p \in Callers |-> NotRunning], unique |-> unique]

\* a call ends with this error, or with this result
Failing(q, made, err) == [q EXCEPT !.pc = "done", !.made = made, !.err = err]
Returning(q, made, res) == [q EXCEPT !.pc = "done", !.made = made, !.res = res]

\* a use case is called
Call(p, op, userID, req) ==
    /\ inflight.call[p] = NotRunning
    /\ inflight' = [inflight EXCEPT !.call[p] =
                        [pc |-> "lookup", op |-> op, userID |-> userID, req |-> req,
                         user |-> NilUser, seen |-> Seen(NilUser, FALSE),
                         made |-> <<>>, err |-> "", res |-> NilResponse]]
    /\ UNCHANGED <<now, jwtSecret, issued, out, db>>

\* Register and CreateUser after GetByEmail that go on to Create whatever
\* the lookup returned
ExistingUserIgnored(q, seen) ==
    [q EXCEPT !.pc = "create", !.made = <<"GetByEmail">>, !.seen = seen,
              !.user = [ID |-> 0, Name |-> q.req.Name, Email |-> q.req.Email,
                        Password |-> HashPassword(q.req.Password), Deleted |-> FALSE]]

\* Register and CreateUser after GetByEmail: the error of the lookup, the
\* existing user, or the user to create with its password hashed
ExistingUserChecked(q, seen) ==
    IF seen.err # ""
    THEN [Failing(q, <<"GetByEmail">>, Errorf("failed to check existing user", seen.err))
            EXCEPT !.seen = seen]
    ELSE IF seen.user # NilUser
    THEN [Failing(q, <<"GetByEmail">>, "user with this email already exists")
            EXCEPT !.seen = seen]
    ELSE [q EXCEPT !.pc = "create", !.made = <<"GetByEmail">>, !.seen = seen,
                   !.user = [ID |-> 0, Name |-> q.req.Name, Email |-> q.req.Email,
                             Password |-> HashPassword(q.req.Password),
                             Deleted |-> FALSE]]

\* UpdateUser and DeleteUser after GetByID
UserFetched(q, seen) ==
    IF seen.err # ""
    THEN [Failing(q, <<"GetByID">>, Errorf("failed to get user", seen.err))
            EXCEPT !.seen = seen]
    ELSE IF seen.user = NilUser
    THEN [Failing(q, <<"GetByID">>, "user not found") EXCEPT !.seen = seen]
    ELSE [q EXCEPT !.made = <<"GetByID">>, !.seen = seen, !.user = seen.user,
                   !.pc = IF q.op = "DeleteUser" THEN "delete"
                          ELSE IF q.req.Email # <<>> /\ q.req.Email # seen.user.Email
                          THEN "check" ELSE "save"]

\* the first repository call of a use case and the tests of what it returned:
\* GetByEmail in Register and CreateUser, GetByID in UpdateUser and DeleteUser
Lookup(p, fails) ==
    /\ inflight.call[p].pc = "lookup"
    /\ LET q == inflight.call[p]
       IN  inflight' = [inflight EXCEPT !.call[p] =
                IF q.op \in {"Register", "CreateUser"}
                THEN ExistingUserChecked(q, Seen(GetByEmail(db, q.req.Email), fails))
                ELSE UserFetched(q, Seen(GetByID(db, q.userID), fails))]
    /\ UNCHANGED <<now, jwtSecret, issued, out, db>>

\* UpdateUser after GetByEmail for the new email
EmailChecked(q, seen) ==
    LET made == Append(q.made, "GetByEmail")
    IN  IF seen.err # ""
        THEN [Failing(q, made, Errorf("failed to check existing email", seen.err))
                EXCEPT !.seen = seen]
        ELSE IF seen.user # NilUser
        THEN [Failing(q, made, "email already exists") EXCEPT !.seen = seen]
        ELSE [q EXCEPT !.pc = "save", !.made = made, !.seen = seen,
                       !.user.Email = q.req.Email]

\* UpdateUser: GetByEmail for the new email, and user.Email = req.Email
CheckEmail(p, fails) ==
    /\ inflight.call[p].pc = "check"
    /\ LET q == inflight.call[p]
       IN  inflight' = [inflight EXCEPT !.call[p] =
                EmailChecked(q, Seen(GetByEmail(db, q.req.Email), fails))]
    /\ UNCHANGED <<now, jwtSecret, issued, out, db>>

\* the Create, Update or Delete call that ends a use case
Write(p) ==
    /\ inflight.call[p].pc \in {"create", "save", "delete"}
    /\ LET q == inflight.call[p]
           withName == IF q.req.Name # "" THEN [q.user EXCEPT !.Name = q.req.Name]
                       ELSE q.user
           updated == IF q.req.Password # ""
                      THEN [withName EXCEPT !.Password = HashPassword(q.req.Password)]
                      ELSE withName
           created == StoreCreate(inflight.unique, db, q.user)
           saved == StoreUpdate(inflight.unique, db, updated)
       IN  CASE q.pc = "create" ->
                  /\ Len(created.db) <= MaxUsers
                  /\ db' = created.db
                  /\ inflight' = [inflight EXCEPT !.call[p] =
                        IF created.err # ""
                        THEN Failing(q, Append(q.made, "Create"),
                                     Errorf("failed to create user", created.err))
                        ELSE Returning(q, Append(q.made, "Create"),
                                       UserResponse(created.user))]
              [] q.pc = "save" ->
                  /\ db' = saved.db
                  /\ inflight' = [inflight EXCEPT !.call[p] =
                        IF saved.err # ""
                        THEN Failing(q, Append(q.made, "Update"),
                                     Errorf("failed to update user", saved.err))
                        ELSE Returning(q, Append(q.made, "Update"), UserResponse(updated))]
              [] OTHER ->
                  /\ db' = Delete(db, q.userID)
                  /\ inflight' = [inflight EXCEPT !.call[p] =
                        Returning(q, Append(q.made, "Delete"), NilResponse)]
    /\ UNCHANGED <<now, jwtSecret, issued, out>>

\* the caller has the result
Finish(p) ==
    /\ inflight.call[p].pc = "done"
    /\ inflight' = [inflight EXCEPT !.call[p] = NotRunning]
    /\ UNCHANGED <<now, jwtSecret, issued, out, db>>

\* a change of the email alone
NewEmail(email) == Body("", email, "")

UsecaseNext ==
    \/ \E p \in Callers, req \in Credentials : Call(p, "Register", 0, req)
    \/ \E p \in Callers : Call(p, "CreateUser", 0, Body("n", <<"b">>, "secret1"))
    \/ \E p \in Callers, userID \in 1 .. MaxUsers, email \in Addresses :
            Call(p, "UpdateUser", userID, NewEmail(email))
    \/ \E p \in Callers, userID \in 1 .. MaxUsers :
            Call(p, "DeleteUser", userID, NoBody)
    \/ \E p \in Callers, fails \in BOOLEAN : Lookup(p, fails)
    \/ \E p \in Callers, fails \in BOOLEAN : CheckEmail(p, fails)
    \/ \E p \in Callers : Write(p)
    \/ \E p \in Callers : Finish(p)

UsecaseSpec == UsecaseInit /\ [][UsecaseNext]_vars

\* the calls of these use cases that are past their first lookup
PastLookup(ops) ==
    {p \in Callers : /\ inflight.call[p].pc \notin {"idle", "lookup"}
                     /\ inflight.call[p].op \in ops}
\* the call has called none of these repository methods
MadeNone(q, methods) == \A i \in DOMAIN q.made : q.made[i] \notin methods
\* what the Register and the CreateUser handler answer a POST with this body
Answers(req) ==
    {HandleRegister(NewResponseWriter, Request("POST", <<"api", "auth", "register">>, req), db),
     HandleCreateUser(NewResponseWriter, Request("POST", <<"api", "users">>, req), db)}

\* C22: when GetByEmail finds a user for the requested email, Register and
\* CreateUser return the error 'user with this email already exists' with a nil
\* result and call nothing but GetByEmail, and the handlers answer 409 with that
\* message and leave the table alone; when the lookup fails, the use cases
\* return an error wrapping 'failed to check existing user' around the cause,
\* a nil result, and call nothing but GetByEmail.
C22_DuplicateEmail ==
    /\ \A p \in PastLookup({"Register", "CreateUser"}) :
          LET q == inflight.call[p]
          IN  /\ (q.seen.err = "" /\ q.seen.user # NilUser) =>
                    /\ q.pc = "done"
                    /\ q.err = "user with this email already exists"
                    /\ q.res = NilResponse
                    /\ q.made = <<"GetByEmail">>
              /\ q.seen.err # "" =>
                    /\ q.pc = "done"
                    /\ q.err = Errorf("failed to check existing user", q.seen.err)
                    /\ q.res = NilResponse
                    /\ q.made = <<"GetByEmail">>
    /\ \A req \in Credentials :
          GetByEmail(db, req.Email) # NilUser =>
              \A answer \in Answers(req) :
                  /\ answer.w.status = StatusConflict
                  /\ answer.w.body = <<[error |-> "user with this email already exists"]>>
                  /\ answer.db = db

\* a Register has found the user of its email while the lookup of a CreateUser
\* has failed
C22_Witness ==
    \E p, r \in Callers :
        /\ inflight.call[p].pc = "done" /\ inflight.call[p].op = "Register"
        /\ inflight.call[p].seen.user # NilUser
        /\ inflight.call[p].err = "user with this email already exists"
        /\ inflight.call[r].pc = "done" /\ inflight.call[r].op = "CreateUser"
        /\ inflight.call[r].err = "failed to check existing user: connection refused"
        /\ MadeNone(inflight.call[r], {"Create"})

\* the errors of a use case that the caller reads as: nothing was done
NothingDone(op) ==
    CASE op = "UpdateUser" -> {"user not found", "email already exists"}
      [] op = "DeleteUser" -> {"user not found"}
      [] OTHER -> {}
\* the update requests of one caller at a time
UpdateRequests ==
    {Body(name, email, password) :
        name \in {"", "n2"}, email \in Addresses \cup {<<>>}, password \in {"", "secret2"}}
\* UpdateUser and DeleteUser, run alone on the table, leave it as it was when
\* they return one of these errors
AloneNothingDone ==
    /\ \A userID \in 1 .. MaxUsers, req \in UpdateRequests :
          UpdateUser(db, userID, req).err \in NothingDone("UpdateUser") =>
              UpdateUser(db, userID, req).db = db
    /\ \A userID \in 1 .. MaxUsers :
          DeleteUser(db, userID).err \in NothingDone("DeleteUser") =>
              DeleteUser(db, userID).db = db
\* the step in which a call returns one of these errors leaves the table as it
\* was, and the call has called neither Create, Update nor Delete
ReturnsNothingDone ==
    \A p \in Callers :
        (/\ inflight.call[p].pc # "done"
         /\ inflight'.call[p].pc = "done"
         /\ inflight'.call[p].err \in NothingDone(inflight'.call[p].op)) =>
            /\ db' = db
            /\ MadeNone(inflight'.call[p], {"Create", "Update", "Delete"})

\* C23: when UpdateUser returns 'user not found' or 'email already exists', or
\* DeleteUser returns 'user not found', the call has made no Update and no
\* Delete call on the store, and the stored users and all their fields are
\* as before the call.
C23_ErrorsLeaveState == []AloneNothingDone /\ [][ReturnsNothingDone]_vars

\* an UpdateUser has returned 'email already exists' and a DeleteUser 'user not
\* found' while the table holds two users
C23_Witness ==
    \E p, r \in Callers :
        /\ inflight.call[p].pc = "done" /\ inflight.call[p].op = "UpdateUser"
        /\ inflight.call[p].err = "email already exists"
        /\ inflight.call[r].pc = "done" /\ inflight.call[r].op = "DeleteUser"
        /\ inflight.call[r].err = "user not found"
        /\ Len(db) = MaxUsers

\* no two users the store returns share an email
EmailsDistinct ==
    \A i, j \in Visible(db) : i # j => db[i].Email # db[j].Email

\* C26: with a store that enforces no uniqueness of its own, in every
\* interleaving of concurrent Register, CreateUser and UpdateUser calls for the
\* same email at most one call ends with that email stored: no two stored users
\* ever share an email.
C26_UniqueUnderConcurrency == ~inflight.unique => EmailsDistinct

====
